---- MODULE Spec2Model ----
(***************************************************************************)
(* Lifted: layered CSS shadows.  A model of the shadow core                *)
(* (src/core/calculations.ts, src/core/color.ts, src/core/css-generator.ts)*)
(* and of the vanilla instance (src/vanilla/init.ts), the useElevation     *)
(* hook, and the dark-mode flag of LiftedProvider and LiftedBox.           *)
(*                                                                         *)
(* Numbers.  The code computes in IEEE doubles; the model computes the     *)
(* same expressions exactly, as integer numerators over fixed              *)
(* denominators:                                                           *)
(*   elevation          n / ElevDen                                        *)
(*   intensity, scale   n / IntensityDen, n / ScaleDen                     *)
(*   angles             whole degrees                                      *)
(*   cos, sin           n / RatioDen (three decimals)                      *)
(*   offsetX/Y, blur    n / PxDen                                          *)
(*   opacity            n / OpacityDen                                     *)
(*   colour components  n / ColorDen (four decimals)                       *)
(*   pointer positions  n / PosDen                                         *)
(* Texts (colours, CSS) are tuples of one-character strings.               *)
(* JavaScript values that may be undefined or null are tagged records      *)
(* (field t), so that the code's tests on them (===, ??, !x, typeof) are   *)
(* modelled as the code writes them.                                       *)
(***************************************************************************)
EXTENDS Integers, Sequences, FiniteSets, TLC

VARIABLES
    pc,     \* "start": the call is about to run; "done": it has returned
    call,   \* the exported function being called
    args,   \* its arguments
    ret     \* its return value (and, for generateShadow, its locals)

\* An instance made by initLiftedBox (init.ts lines 23-29), its element and
\* the browser around it
VARIABLES
    currentOptions,       \* let currentOptions
    instanceLightSource,  \* const lightSource
    lastMousePosition,    \* let mousePosition
    smoothedPosition,     \* let smoothedPosition
    animationFrame,       \* let animationFrame
    isDestroyed,          \* let isDestroyed
    style,                \* element.style: backgroundColor, transition, boxShadow
    listening,            \* handleMouseMove is a mousemove listener of window
    frames,               \* the animation frames requested and not yet run or cancelled
    nextFrame             \* the handle the next requestAnimationFrame returns

instanceVars ==
    <<currentOptions, instanceLightSource, lastMousePosition, smoothedPosition,
      animationFrame, isDestroyed, style, listening, frames, nextFrame>>

\* The React side: the state of a mounted useElevation hook, and of a
\* LiftedProvider with one LiftedBox under it
VARIABLES
    isHovered,        \* useElevation: const [isHovered, setIsHovered]
    isActive,         \* useElevation: const [isActive, setIsActive]
    pressedOutside,   \* history: some mouseDown came while isHovered was false
    memo,             \* the caches of the useMemo calls of the component
    matches,          \* window.matchMedia('(prefers-color-scheme: dark)').matches
    systemDarkMode,   \* useDarkMode: const [isDarkMode, setIsDarkMode], per component
    handlers          \* the components whose handler listens to the media query's change

reactVars ==
    <<isHovered, isActive, pressedOutside, memo, matches, systemDarkMode, handlers>>

vars == <<pc, call, args, ret, instanceVars, reactVars>>

-----------------------------------------------------------------------------
(* Program constants: calculations.ts lines 21-24 *)

MAX_LAYERS == 5

\* BASE_OPACITY = 0.075 = BASE_OPACITY_NUM / BASE_OPACITY_DEN
BASE_OPACITY_NUM == 75

BASE_OPACITY_DEN == 1000

DEFAULT_LIGHT_ANGLE == -45

DEFAULT_MAX_MOUSE_ANGLE == 30

-----------------------------------------------------------------------------
(* Bounds and units of the model *)

\* elevation is n / ElevDen: a quarter of a layer is the finest step
ElevDen == 4 * MAX_LAYERS

\* elevations range over -MaxElevation..MaxElevation (beyond +-ElevDen they
\* are out of range and get clamped)
MaxElevation == 23

\* intensity is n / IntensityDen, n in 1..MaxIntensity
IntensityDen == 2

MaxIntensity == 3

\* scale is n / ScaleDen, n in 1..MaxScale
ScaleDen == 2

MaxScale == 3

\* cos and sin are n / RatioDen
RatioDen == 10 * 10 * 10

PxDen == RatioDen * ElevDen * IntensityDen

OpacityDen == BASE_OPACITY_DEN * ElevDen * IntensityDen

-----------------------------------------------------------------------------
(* JavaScript values *)

Undefined == [t |-> "undefined"]

Null == [t |-> "null"]

Num(n) == [t |-> "number", v |-> n]

Str(s) == [t |-> "string", v |-> s]

\* x ?? d
Nullish(x) == x.t \in {"undefined", "null"}

OrElse(x, d) == IF Nullish(x) THEN d ELSE x.v

Max(a, b) == IF a >= b THEN a ELSE b

Min(a, b) == IF a <= b THEN a ELSE b

Abs(a) == IF a < 0 THEN -a ELSE a

RECURSIVE Pow2(_)
Pow2(i) == IF i = 0 THEN 1 ELSE 2 * Pow2(i - 1)

\* Math.round of the rational n / d (d > 0): halves go up
RoundDiv(n, d) == (2 * n + d) \div (2 * d)

-----------------------------------------------------------------------------
(* Light source: calculations.ts lines 30-93 *)

\* A light source record; a field the caller omits is Undefined
LightRecord(type, angle, smoothing, maxAngle, fallbackAngle) ==
    [t |-> "object", type |-> type, angle |-> angle, smoothing |-> smoothing,
     maxAngle |-> maxAngle, fallbackAngle |-> fallbackAngle]

\* source.type: a property read of a string or a number gives undefined
TypeOf(source) == IF source.t = "object" THEN source.type ELSE "undefined"

\* normalizeLightSource without its last return: a source that is none of
\* the three shorthands falls off the end of the function
normalizeLightSourceNoReturn(source) ==
    IF source.t = "undefined"
    THEN LightRecord("static", Num(DEFAULT_LIGHT_ANGLE), Undefined, Undefined, Undefined)
    ELSE IF source.t = "number"
    THEN LightRecord("static", Num(source.v), Undefined, Undefined, Undefined)
    ELSE IF source = Str("mouse")
    THEN LightRecord("mouse", Undefined, Num(1), Num(DEFAULT_MAX_MOUSE_ANGLE),
                     Num(DEFAULT_LIGHT_ANGLE))
    ELSE Undefined

\* smoothing 0.1 is kept as the numerator of n / 10
normalizeLightSource(source) ==
    IF source.t = "undefined"
    THEN LightRecord("static", Num(DEFAULT_LIGHT_ANGLE), Undefined, Undefined, Undefined)
    ELSE IF source.t = "number"
    THEN LightRecord("static", Num(source.v), Undefined, Undefined, Undefined)
    ELSE IF source = Str("mouse")
    THEN LightRecord("mouse", Undefined, Num(1), Num(DEFAULT_MAX_MOUSE_ANGLE),
                     Num(DEFAULT_LIGHT_ANGLE))
    ELSE source

\* Math.atan2(deltaY, deltaX) in degrees, on the eight compass directions
\* and at the origin (the pointer positions of the model)
Atan2Deg(dy, dx) ==
    CASE dy = 0 /\ dx >= 0 -> 0
      [] dy = 0 /\ dx < 0 -> 180
      [] dx = 0 /\ dy > 0 -> 90
      [] dx = 0 /\ dy < 0 -> -90
      [] dx > 0 /\ dy = dx -> 45
      [] dx < 0 /\ dy = -dx -> 135
      [] dx < 0 /\ dy = dx -> -135
      [] dx > 0 /\ dy = -dx -> -45

RECURSIVE WrapDown(_)
WrapDown(d) == IF d > 180 THEN WrapDown(d - 360) ELSE d

RECURSIVE WrapUp(_)
WrapUp(d) == IF d < -180 THEN WrapUp(d + 360) ELSE d

\* calculateLightAngle with the mouse fallback ignored: the default angle is
\* returned whenever the rectangle or the pointer is missing
calculateLightAngleNoFallback(lightSource, elementBounds, mousePosition) ==
    LET type == TypeOf(lightSource) IN
    IF type \in {"static", "custom"} THEN lightSource.angle.v
    ELSE IF type = "mouse" THEN
        IF Nullish(mousePosition) \/ Nullish(elementBounds)
        THEN DEFAULT_LIGHT_ANGLE
        ELSE LET deltaX2 == 2 * mousePosition.x - (2 * elementBounds.x + elementBounds.width)
                 deltaY2 == 2 * mousePosition.y - (2 * elementBounds.y + elementBounds.height)
                 angleDeg == Atan2Deg(deltaY2, deltaX2) + 180
                 maxAngle == OrElse(lightSource.maxAngle, DEFAULT_MAX_MOUSE_ANGLE)
                 fallback == OrElse(lightSource.fallbackAngle, DEFAULT_LIGHT_ANGLE)
                 angleDiff == WrapUp(WrapDown(angleDeg - fallback))
             IN  fallback + Max(-maxAngle, Min(maxAngle, angleDiff))
    ELSE DEFAULT_LIGHT_ANGLE

\* calculateLightAngle with the clamp left out: the pointer's angle is
\* followed without limit
calculateLightAngleNoClamp(lightSource, elementBounds, mousePosition) ==
    LET type == TypeOf(lightSource) IN
    IF type \in {"static", "custom"} THEN lightSource.angle.v
    ELSE IF type = "mouse" THEN
        IF Nullish(mousePosition) \/ Nullish(elementBounds)
        THEN OrElse(lightSource.fallbackAngle, DEFAULT_LIGHT_ANGLE)
        ELSE LET deltaX2 == 2 * mousePosition.x - (2 * elementBounds.x + elementBounds.width)
                 deltaY2 == 2 * mousePosition.y - (2 * elementBounds.y + elementBounds.height)
                 angleDeg == Atan2Deg(deltaY2, deltaX2) + 180
                 fallback == OrElse(lightSource.fallbackAngle, DEFAULT_LIGHT_ANGLE)
                 angleDiff == WrapUp(WrapDown(angleDeg - fallback))
             IN  fallback + angleDiff
    ELSE DEFAULT_LIGHT_ANGLE

\* deltas are doubled (centre = x + width / 2) to stay in whole numbers
calculateLightAngle(lightSource, elementBounds, mousePosition) ==
    LET type == TypeOf(lightSource) IN
    IF type \in {"static", "custom"} THEN lightSource.angle.v
    ELSE IF type = "mouse" THEN
        IF Nullish(mousePosition) \/ Nullish(elementBounds)
        THEN OrElse(lightSource.fallbackAngle, DEFAULT_LIGHT_ANGLE)
        ELSE LET deltaX2 == 2 * mousePosition.x - (2 * elementBounds.x + elementBounds.width)
                 deltaY2 == 2 * mousePosition.y - (2 * elementBounds.y + elementBounds.height)
                 angleDeg == Atan2Deg(deltaY2, deltaX2) + 180
                 maxAngle == OrElse(lightSource.maxAngle, DEFAULT_MAX_MOUSE_ANGLE)
                 fallback == OrElse(lightSource.fallbackAngle, DEFAULT_LIGHT_ANGLE)
                 angleDiff == WrapUp(WrapDown(angleDeg - fallback))
             IN  fallback + Max(-maxAngle, Min(maxAngle, angleDiff))
    ELSE DEFAULT_LIGHT_ANGLE

\* cos of a multiple of 15 degrees, in thousandths
CosTable(a) ==
    CASE a = 0 -> 1000
      [] a = 15 -> 966
      [] a = 30 -> 866
      [] a = 45 -> 707
      [] a = 60 -> 500
      [] a = 75 -> 259
      [] a = 90 -> 0

Cos(deg) ==
    LET a == deg % 360
        b == IF a > 180 THEN 360 - a ELSE a
    IN  IF b <= 90 THEN CosTable(b) ELSE -CosTable(180 - b)

Sin(deg) == Cos(deg - 90)

angleToOffsetRatios(angleDeg) == [ratioX |-> Cos(angleDeg), ratioY |-> Sin(angleDeg)]

-----------------------------------------------------------------------------
(* Layer synthesis: calculations.ts lines 107-153 *)

\* LayerAt with the boundary test off by one (<= for <): a layer of size
\* zero is pushed when the active layer count is a whole number
LayerAtOffByOne(i, activeLayerCount, ratios, intensity, directionMultiplier, isInset) ==
    LET layerIndex == i + 1
        baseOffset == Pow2(i)
        partial == activeLayerCount - (layerIndex - 1) * ElevDen
    IN  IF layerIndex * ElevDen <= activeLayerCount
        THEN << [offsetX |-> baseOffset * ratios.ratioX * intensity * directionMultiplier * ElevDen,
                 offsetY |-> baseOffset * ratios.ratioY * intensity * directionMultiplier * ElevDen,
                 blur |-> baseOffset * intensity * RatioDen * ElevDen,
                 spread |-> 0,
                 opacity |-> BASE_OPACITY_NUM * intensity * ElevDen,
                 inset |-> isInset] >>
        ELSE IF (layerIndex - 1) * ElevDen <= activeLayerCount
        THEN << [offsetX |-> baseOffset * ratios.ratioX * partial * intensity * directionMultiplier,
                 offsetY |-> baseOffset * ratios.ratioY * partial * intensity * directionMultiplier,
                 blur |-> baseOffset * partial * intensity * RatioDen,
                 spread |-> 0,
                 opacity |-> BASE_OPACITY_NUM * partial * intensity,
                 inset |-> isInset] >>
        ELSE << >>

\* LayerAt with the partial factor taken from the wrong end
\* (layerIndex - activeLayerCount): the boundary layer shrinks as elevation grows
LayerAtInverted(i, activeLayerCount, ratios, intensity, directionMultiplier, isInset) ==
    LET layerIndex == i + 1
        baseOffset == Pow2(i)
        partial == layerIndex * ElevDen - activeLayerCount
    IN  IF layerIndex * ElevDen <= activeLayerCount
        THEN << [offsetX |-> baseOffset * ratios.ratioX * intensity * directionMultiplier * ElevDen,
                 offsetY |-> baseOffset * ratios.ratioY * intensity * directionMultiplier * ElevDen,
                 blur |-> baseOffset * intensity * RatioDen * ElevDen,
                 spread |-> 0,
                 opacity |-> BASE_OPACITY_NUM * intensity * ElevDen,
                 inset |-> isInset] >>
        ELSE IF (layerIndex - 1) * ElevDen < activeLayerCount
        THEN << [offsetX |-> baseOffset * ratios.ratioX * partial * intensity * directionMultiplier,
                 offsetY |-> baseOffset * ratios.ratioY * partial * intensity * directionMultiplier,
                 blur |-> baseOffset * partial * intensity * RatioDen,
                 spread |-> 0,
                 opacity |-> BASE_OPACITY_NUM * partial * intensity,
                 inset |-> isInset] >>
        ELSE << >>

\* One pass of the loop body for index i: the layers it pushes (none or one)
LayerAt(i, activeLayerCount, ratios, intensity, directionMultiplier, isInset) ==
    LET layerIndex == i + 1
        baseOffset == Pow2(i)
        partial == activeLayerCount - (layerIndex - 1) * ElevDen
    IN  IF layerIndex * ElevDen <= activeLayerCount
        THEN << [offsetX |-> baseOffset * ratios.ratioX * intensity * directionMultiplier * ElevDen,
                 offsetY |-> baseOffset * ratios.ratioY * intensity * directionMultiplier * ElevDen,
                 blur |-> baseOffset * intensity * RatioDen * ElevDen,
                 spread |-> 0,
                 opacity |-> BASE_OPACITY_NUM * intensity * ElevDen,
                 inset |-> isInset] >>
        ELSE IF (layerIndex - 1) * ElevDen < activeLayerCount
        THEN << [offsetX |-> baseOffset * ratios.ratioX * partial * intensity * directionMultiplier,
                 offsetY |-> baseOffset * ratios.ratioY * partial * intensity * directionMultiplier,
                 blur |-> baseOffset * partial * intensity * RatioDen,
                 spread |-> 0,
                 opacity |-> BASE_OPACITY_NUM * partial * intensity,
                 inset |-> isInset] >>
        ELSE << >>

RECURSIVE LayerLoop(_, _, _, _, _, _)
LayerLoop(i, activeLayerCount, ratios, intensity, directionMultiplier, isInset) ==
    IF i >= MAX_LAYERS THEN << >>
    ELSE LayerAt(i, activeLayerCount, ratios, intensity, directionMultiplier, isInset)
         \o LayerLoop(i + 1, activeLayerCount, ratios, intensity, directionMultiplier, isInset)

\* the loop run up to the active layer count instead of MAX_LAYERS
RECURSIVE LayerLoopUncapped(_, _, _, _, _, _)
LayerLoopUncapped(i, activeLayerCount, ratios, intensity, directionMultiplier, isInset) ==
    IF i * ElevDen >= activeLayerCount THEN << >>
    ELSE LayerAt(i, activeLayerCount, ratios, intensity, directionMultiplier, isInset)
         \o LayerLoopUncapped(i + 1, activeLayerCount, ratios, intensity, directionMultiplier, isInset)

\* calculateShadowLayers with no clamp and no cap: out-of-range elevations
\* keep adding layers
calculateShadowLayersUnclamped(elevation, lightAngle, intensity) ==
    LET clampedElevation == elevation
        isInset == clampedElevation < 0
        absElevation == Abs(clampedElevation)
        activeLayerCount == absElevation * MAX_LAYERS
        ratios == angleToOffsetRatios(lightAngle)
        directionMultiplier == IF isInset THEN -1 ELSE 1
    IN  IF clampedElevation = 0 THEN << >>
        ELSE LayerLoopUncapped(0, activeLayerCount, ratios, intensity, directionMultiplier, isInset)

\* calculateShadowLayers with the direction multiplier left at 1: inset
\* offsets are not flipped
calculateShadowLayersNoFlip(elevation, lightAngle, intensity) ==
    LET clampedElevation == Max(-ElevDen, Min(ElevDen, elevation))
        isInset == clampedElevation < 0
        absElevation == Abs(clampedElevation)
        activeLayerCount == absElevation * MAX_LAYERS
        ratios == angleToOffsetRatios(lightAngle)
        directionMultiplier == 1
    IN  IF clampedElevation = 0 THEN << >>
        ELSE LayerLoop(0, activeLayerCount, ratios, intensity, directionMultiplier, isInset)

\* activeLayerCount is kept as a numerator over ElevDen
calculateShadowLayers(elevation, lightAngle, intensity) ==
    LET clampedElevation == Max(-ElevDen, Min(ElevDen, elevation))
        isInset == clampedElevation < 0
        absElevation == Abs(clampedElevation)
        activeLayerCount == absElevation * MAX_LAYERS
        ratios == angleToOffsetRatios(lightAngle)
        directionMultiplier == IF isInset THEN -1 ELSE 1
    IN  IF clampedElevation = 0 THEN << >>
        ELSE LayerLoop(0, activeLayerCount, ratios, intensity, directionMultiplier, isInset)

-----------------------------------------------------------------------------
(* Text.  A JavaScript string whose characters the code inspects (a colour) *)
(* is a sequence of one-character strings.                                  *)

Digits == <<"0", "1", "2", "3", "4", "5", "6", "7", "8", "9">>

DigitSet == {Digits[i] : i \in 1..10}

DigitValue(c) == (CHOOSE i \in 1..10 : Digits[i] = c) - 1

HexLower == <<"a", "b", "c", "d", "e", "f">>

HexUpper == <<"A", "B", "C", "D", "E", "F">>

HexSet == DigitSet \cup {HexLower[i] : i \in 1..6} \cup {HexUpper[i] : i \in 1..6}

HexValue(c) ==
    IF c \in DigitSet THEN DigitValue(c)
    ELSE IF \E i \in 1..6 : HexLower[i] = c
    THEN 9 + (CHOOSE i \in 1..6 : HexLower[i] = c)
    ELSE 9 + (CHOOSE i \in 1..6 : HexUpper[i] = c)

\* \s, as far as the texts of the model go
SpaceSet == {" "}

RECURSIVE NatToText(_)
NatToText(n) == IF n < 10 THEN <<Digits[n + 1]>> ELSE NatToText(n \div 10) \o <<Digits[(n % 10) + 1]>>

\* how many digits after the point a printed number keeps
MaxFractionDigits == 17

\* the digits after the point of rem / den (rem < den), by long division
RECURSIVE FractionText(_, _, _)
FractionText(rem, den, k) ==
    IF rem = 0 \/ k = 0 THEN << >>
    ELSE <<Digits[(10 * rem) \div den + 1]>> \o FractionText((10 * rem) % den, den, k - 1)

\* Number.prototype.toString of the rational n / den, in exact arithmetic:
\* the sign, the whole part and the digits after the point (-0 prints as 0)
NumberText(n, den) ==
    LET a == IF n < 0 THEN -n ELSE n
        frac == FractionText(a % den, den, MaxFractionDigits)
    IN  (IF n < 0 THEN <<"-">> ELSE << >>) \o NatToText(a \div den)
        \o (IF frac = << >> THEN << >> ELSE <<".">> \o frac)

\* colour components are n / ColorDen (four decimals)
ColorDen == 10 * 10 * 10 * 10

\* how many decimals ColorDen keeps
ColorDigits == Len(NatToText(ColorDen)) - 1

\* NaN: the numerators of parsed numbers are never negative, which leaves
\* -1 free to stand for it
NaN == 0 - 1

\* `${number}` of a colour component n / ColorDen
NumToText(n) == IF n = NaN THEN <<"N", "a", "N">> ELSE NumberText(n, ColorDen)

-----------------------------------------------------------------------------
(* Regular expressions: String.prototype.match as parseColor uses it.      *)
(* A pattern is a sequence of items [set, min, max]: between min and max   *)
(* characters of set, greedy, with backtracking.  All three patterns are    *)
(* anchored at the start; atEnd says whether the pattern ends in $.         *)

Lit(c) == [set |-> {c}, min |-> 1, max |-> 1]

OneOf(S) == [set |-> S, min |-> 1, max |-> 1]

Opt(S) == [set |-> S, min |-> 0, max |-> 1]

Star(S, bound) == [set |-> S, min |-> 0, max |-> bound]

Plus(S, bound) == [set |-> S, min |-> 1, max |-> bound]

RECURSIVE RunLength(_, _, _, _)
RunLength(text, p, set, max) ==
    IF max = 0 \/ p > Len(text) \/ text[p] \notin set THEN 0
    ELSE 1 + RunLength(text, p + 1, set, max - 1)

NoMatch == [ok |-> FALSE, spans |-> << >>]

RECURSIVE MatchFrom(_, _, _, _, _)
RECURSIVE TryLength(_, _, _, _, _, _)
\* items k.. of pat matched at position p: the span of each item
MatchFrom(text, pat, atEnd, k, p) ==
    IF k > Len(pat)
    THEN IF atEnd /\ p # Len(text) + 1 THEN NoMatch ELSE [ok |-> TRUE, spans |-> << >>]
    ELSE TryLength(text, pat, atEnd, k, p, RunLength(text, p, pat[k].set, pat[k].max))

TryLength(text, pat, atEnd, k, p, n) ==
    IF n < pat[k].min THEN NoMatch
    ELSE LET rest == MatchFrom(text, pat, atEnd, k + 1, p + n)
         IN  IF rest.ok THEN [ok |-> TRUE, spans |-> << <<p, p + n - 1>> >> \o rest.spans]
             ELSE TryLength(text, pat, atEnd, k, p, n - 1)

Group(text, m, k) == SubSeq(text, m.spans[k][1], m.spans[k][2])

\* the longest texts the patterns are applied to bound the open quantifiers
MaxText == 24

HexPattern == << Lit("#"), [set |-> HexSet, min |-> 3, max |-> 8] >>

NumberSet == DigitSet \cup {"."}

HslPattern ==
    << OneOf({"h", "H"}), OneOf({"s", "S"}), OneOf({"l", "L"}), Lit("("),
       Star(SpaceSet, MaxText), Plus(NumberSet, MaxText), Star(SpaceSet, MaxText),
       Opt({","}), Star(SpaceSet, MaxText), Plus(NumberSet, MaxText), Opt({"%"}),
       Star(SpaceSet, MaxText), Opt({","}), Star(SpaceSet, MaxText),
       Plus(NumberSet, MaxText), Opt({"%"}), Star(SpaceSet, MaxText), Lit(")") >>

RgbPattern ==
    << OneOf({"r", "R"}), OneOf({"g", "G"}), OneOf({"b", "B"}), Lit("("),
       Star(SpaceSet, MaxText), Plus(NumberSet, MaxText), Star(SpaceSet, MaxText),
       Opt({","}), Star(SpaceSet, MaxText), Plus(NumberSet, MaxText),
       Star(SpaceSet, MaxText), Opt({","}), Star(SpaceSet, MaxText),
       Plus(NumberSet, MaxText), Star(SpaceSet, MaxText), Lit(")") >>

RECURSIVE DigitsValue(_)
DigitsValue(text) ==
    IF text = << >> THEN 0
    ELSE 10 * DigitsValue(SubSeq(text, 1, Len(text) - 1)) + DigitValue(text[Len(text)])

RECURSIVE Pow10(_)
Pow10(k) == IF k = 0 THEN 1 ELSE 10 * Pow10(k - 1)

\* parseFloat of a text of digits and dots, as n / ColorDen: the digits
\* before the first dot and those after it (ColorDigits of them: the texts
\* of the model carry no more); NaN when no digit starts the number
parseFloat(text) ==
    LET whole == RunLength(text, 1, DigitSet, Len(text))
        hasDot == whole < Len(text) /\ text[whole + 1] = "."
        fraction == IF hasDot THEN RunLength(text, whole + 2, DigitSet, ColorDigits) ELSE 0
        fracText == SubSeq(text, whole + 2, whole + 1 + fraction)
    IN  IF whole = 0 /\ fraction = 0 THEN NaN
        ELSE DigitsValue(SubSeq(text, 1, whole)) * ColorDen
             + DigitsValue(fracText) * Pow10(ColorDigits - fraction)

\* parseInt(text, 16) of hex digits
RECURSIVE parseInt16(_)
parseInt16(text) ==
    IF text = << >> THEN 0
    ELSE 16 * parseInt16(SubSeq(text, 1, Len(text) - 1)) + HexValue(text[Len(text)])

-----------------------------------------------------------------------------
(* Colours: color.ts *)

HSL(h, s, l) == [t |-> "object", h |-> h, s |-> s, l |-> l]

Max3(a, b, c) == Max(a, Max(b, c))

Min3(a, b, c) == Min(a, Min(b, c))

\* r, g, b are numerators over one common denominator den, 255 being
\* 255 * den; h, s, l come out rounded, as numerators over ColorDen.  With a
\* NaN among r, g, b, max and min are NaN: l and s are NaN, no case of the
\* switch is taken and h stays 0
rgbToHSL(r, g, b, den) ==
    IF NaN \in {r, g, b} THEN HSL(0, NaN, NaN) ELSE
    LET max == Max3(r, g, b)
        min == Min3(r, g, b)
        full == 255 * den
        d == max - min
        l100 == RoundDiv(100 * (max + min), 2 * full)
        s100 == IF max = min THEN 0
                ELSE IF max + min > full
                THEN RoundDiv(100 * d, 2 * full - max - min)
                ELSE RoundDiv(100 * d, max + min)
        h360 == IF max = min THEN 0
                ELSE IF max = r
                THEN RoundDiv(60 * (g - b) + (IF g < b THEN 360 * d ELSE 0), d)
                ELSE IF max = g
                THEN RoundDiv(60 * (b - r) + 120 * d, d)
                ELSE RoundDiv(60 * (r - g) + 240 * d, d)
    IN  HSL(h360 * ColorDen, s100 * ColorDen, l100 * ColorDen)

hexToHSL(hex) ==
    IF Len(hex) = 4
    THEN rgbToHSL(parseInt16(<<hex[2], hex[2]>>), parseInt16(<<hex[3], hex[3]>>),
                  parseInt16(<<hex[4], hex[4]>>), 1)
    ELSE IF Len(hex) >= 7
    THEN rgbToHSL(parseInt16(SubSeq(hex, 2, 3)), parseInt16(SubSeq(hex, 4, 5)),
                  parseInt16(SubSeq(hex, 6, 7)), 1)
    ELSE rgbToHSL(0, 0, 0, 1)

parseColor(color) ==
    LET hex == MatchFrom(color, HexPattern, TRUE, 1, 1)
        hsl == MatchFrom(color, HslPattern, FALSE, 1, 1)
        rgb == MatchFrom(color, RgbPattern, FALSE, 1, 1)
    IN  IF hex.ok THEN hexToHSL(color)
        ELSE IF hsl.ok
        THEN HSL(parseFloat(Group(color, hsl, 6)), parseFloat(Group(color, hsl, 10)),
                 parseFloat(Group(color, hsl, 15)))
        ELSE IF rgb.ok
        THEN rgbToHSL(parseFloat(Group(color, rgb, 6)), parseFloat(Group(color, rgb, 10)),
                      parseFloat(Group(color, rgb, 14)), ColorDen)
        ELSE Null

\* 'hsl(0 0% 100% / 0.1)'
FallbackDark ==
    <<"h", "s", "l", "(", "0", " ", "0", "%", " ", "1", "0", "0", "%", " ", "/", " ",
      "0", ".", "1", ")">>

\* 'hsl(220 3% 15%)'
FallbackLight ==
    <<"h", "s", "l", "(", "2", "2", "0", " ", "3", "%", " ", "1", "5", "%", ")">>

\* `hsl(${h} ${s}% ${l}%)`
HslText(h, s, l) ==
    <<"h", "s", "l", "(">> \o NumToText(h) \o <<" ">> \o NumToText(s) \o <<"%", " ">>
    \o NumToText(l) \o <<"%", ")">>

\* Math.max and Math.min of a number and x: NaN when x is NaN
MathMax(a, x) == IF x = NaN THEN NaN ELSE Max(a, x)

MathMin(a, x) == IF x = NaN THEN NaN ELSE Min(a, x)

\* s * 0.6 and l * 0.5 stay within ColorDigits decimals for the colours of
\* the model
calculateShadowColor(background, isDarkMode) ==
    LET hsl == parseColor(background) IN
    IF hsl = Null THEN (IF isDarkMode THEN FallbackDark ELSE FallbackLight)
    ELSE IF isDarkMode
    THEN HslText(hsl.h,
                 MathMax(0, IF hsl.s = NaN THEN NaN ELSE hsl.s - 20 * ColorDen),
                 MathMin(100 * ColorDen, IF hsl.l = NaN THEN NaN ELSE hsl.l + 30 * ColorDen))
    ELSE HslText(hsl.h,
                 MathMax(0, IF hsl.s = NaN THEN NaN ELSE (hsl.s * 6) \div 10),
                 MathMax(10 * ColorDen, IF hsl.l = NaN THEN NaN ELSE (hsl.l * 5) \div 10))

\* The layer colour `hsl(${h} ${s}% ${l}% / ${opacity})`: h, s, l over
\* ColorDen, opacity over OpacityDen
LayerColor(h, s, l, opacity) ==
    <<"h", "s", "l", "(">> \o NumToText(h) \o <<" ">> \o NumToText(s) \o <<"%", " ">>
    \o NumToText(l) \o <<"%", " ", "/", " ">> \o NumberText(opacity, OpacityDen) \o <<")">>

generateLayerColor(baseColor, opacity) ==
    LET hsl == parseColor(baseColor) IN
    IF hsl = Null THEN LayerColor(220 * ColorDen, 3 * ColorDen, 15 * ColorDen, opacity)
    ELSE LayerColor(hsl.h, hsl.s, hsl.l, opacity)

-----------------------------------------------------------------------------
(* Shadow generation and serialization: css-generator.ts *)

\* a destructuring default: it applies to undefined alone
Default(x, d) == IF x.t = "undefined" THEN d ELSE x.v

\* if (x), x undefined or a string
Truthy(x) == x.t = "string" /\ x.v # << >>

\* elevation, lightSource, background, shadowColor, shadowColorDark, intensity,
\* scale, isDarkMode: a field the caller omits is Undefined
ShadowOptions(e, ls, bg, sc, scd, i, s, dark) ==
    [elevation |-> e, lightSource |-> ls, background |-> bg, shadowColor |-> sc,
     shadowColorDark |-> scd, intensity |-> i, scale |-> s, isDarkMode |-> dark]

\* formatPx without the test for zero: zero keeps its unit
formatPxAlwaysUnit(value) ==
    NumberText(RoundDiv(100 * value, PxDen), 100) \o <<"p", "x">>

\* value is a numerator over PxDen; Math.round(value * 100) / 100 is a whole
\* number of hundredths
formatPx(value) ==
    IF value = 0 THEN <<"0">>
    ELSE NumberText(RoundDiv(100 * value, PxDen), 100) \o <<"p", "x">>

\* CssEntry with the test for a zero spread left out: the spread token is
\* always printed
CssEntryAlwaysSpread(layer) ==
    LET x == formatPx(layer.offsetX)
        y == formatPx(layer.offsetY)
        b == formatPx(layer.blur)
        s == formatPx(layer.spread)
        insetPrefix == IF layer.inset THEN <<"i", "n", "s", "e", "t", " ">> ELSE << >>
    IN  insetPrefix \o x \o <<" ">> \o y \o <<" ">> \o b \o <<" ">> \o s \o <<" ">>
        \o layer.color

\* the callback of layers.map: one entry of the box-shadow text
CssEntry(layer) ==
    LET x == formatPx(layer.offsetX)
        y == formatPx(layer.offsetY)
        b == formatPx(layer.blur)
        s == formatPx(layer.spread)
        insetPrefix == IF layer.inset THEN <<"i", "n", "s", "e", "t", " ">> ELSE << >>
    IN  IF layer.spread = 0
        THEN insetPrefix \o x \o <<" ">> \o y \o <<" ">> \o b \o <<" ">> \o layer.color
        ELSE insetPrefix \o x \o <<" ">> \o y \o <<" ">> \o b \o <<" ">> \o s \o <<" ">>
             \o layer.color

\* Array.prototype.join
RECURSIVE Join(_, _)
Join(texts, separator) ==
    IF Len(texts) = 0 THEN << >>
    ELSE IF Len(texts) = 1 THEN texts[1]
    ELSE texts[1] \o separator \o Join(Tail(texts), separator)

\* ',\n    '
CssSeparator == <<",", "\n", " ", " ", " ", " ">>

CssNone == <<"n", "o", "n", "e">>

\* layersToCSS without the test for no layers: the empty list is joined
layersToCSSNoNone(layers) ==
    Join([i \in 1..Len(layers) |-> CssEntry(layers[i])], CssSeparator)

layersToCSS(layers) ==
    IF Len(layers) = 0 THEN CssNone
    ELSE Join([i \in 1..Len(layers) |-> CssEntry(layers[i])], CssSeparator)

WithColor(layer, color) ==
    [offsetX |-> layer.offsetX, offsetY |-> layer.offsetY, blur |-> layer.blur,
     spread |-> layer.spread, opacity |-> layer.opacity, inset |-> layer.inset,
     color |-> color]

applyColorToLayers(layers, shadowColor) ==
    [i \in 1..Len(layers) |->
        WithColor(layers[i], generateLayerColor(shadowColor, layers[i].opacity))]

\* generateCSSVariables reporting one layer whatever the list
generateCSSVariablesOneLayer(layers, elevation, lightAngle) ==
    ("--lifted-elevation" :> NumberText(elevation, ElevDen))
    @@ ("--lifted-light-angle" :> NumberText(lightAngle, 1) \o <<"d", "e", "g">>)
    @@ ("--lifted-layers" :> NatToText(1))
    @@ ("--lifted-shadow" :> layersToCSS(layers))

\* lines 122-135: the four custom properties, each a text (elevation is
\* n / ElevDen, lightAngle a whole number of degrees)
generateCSSVariables(layers, elevation, lightAngle) ==
    ("--lifted-elevation" :> NumberText(elevation, ElevDen))
    @@ ("--lifted-light-angle" :> NumberText(lightAngle, 1) \o <<"d", "e", "g">>)
    @@ ("--lifted-layers" :> NatToText(Len(layers)))
    @@ ("--lifted-shadow" :> layersToCSS(layers))

\* ResolveShadowColor with the background tried before the override
ResolveShadowColorBackgroundFirst(shadowColorOverride, shadowColorDark, background, isDarkMode) ==
    IF Truthy(background) THEN calculateShadowColor(background.v, isDarkMode)
    ELSE IF Truthy(shadowColorOverride) THEN shadowColorOverride.v
    ELSE IF isDarkMode /\ Truthy(shadowColorDark) THEN shadowColorDark.v
    ELSE IF isDarkMode THEN FallbackDark ELSE FallbackLight

\* lines 52-62: the shadow base colour
ResolveShadowColor(shadowColorOverride, shadowColorDark, background, isDarkMode) ==
    IF Truthy(shadowColorOverride) THEN shadowColorOverride.v
    ELSE IF isDarkMode /\ Truthy(shadowColorDark) THEN shadowColorDark.v
    ELSE IF Truthy(background) THEN calculateShadowColor(background.v, isDarkMode)
    ELSE IF isDarkMode THEN FallbackDark ELSE FallbackLight

\* the call ended in an exception
Thrown(error) == [thrown |-> error]

\* calculateShadowLayers declares three parameters: the call's fourth and
\* fifth arguments (scale, isAmbient) are evaluated and dropped; reading
\* lightSource.type of undefined or null throws
generateShadow(options, elementBounds, mousePosition) ==
    LET elevation == Default(options.elevation, (3 * ElevDen) \div 10)
        intensity == Default(options.intensity, IntensityDen)
        scale == Default(options.scale, ScaleDen)
        isDarkMode == Default(options.isDarkMode, FALSE)
        lightSource == normalizeLightSource(options.lightSource)
        isAmbient == TypeOf(lightSource) = "ambient"
        result(layers, lightAngle, shadowColor) ==
            [layers |-> layers,
             boxShadow |-> layersToCSS(layers),
             cssVariables |-> generateCSSVariables(layers, elevation, lightAngle),
             lightSource |-> lightSource,
             isAmbient |-> isAmbient,
             lightAngle |-> lightAngle,
             shadowColor |-> shadowColor]
        coloured(lightAngle, shadowColor) ==
            result(applyColorToLayers(calculateShadowLayers(elevation, lightAngle, intensity),
                                      shadowColor),
                   lightAngle, shadowColor)
    IN  IF Nullish(lightSource) THEN Thrown("TypeError") ELSE
        coloured(calculateLightAngle(lightSource, elementBounds, mousePosition),
                 ResolveShadowColor(options.shadowColor, options.shadowColorDark,
                                    options.background, isDarkMode))

-----------------------------------------------------------------------------
(* The inputs of the model *)

Elevations == -MaxElevation..MaxElevation

Intensities == 1..MaxIntensity

Scales == 1..MaxScale

\* light angles: multiples of 15 degrees
Angles == {-120, -45, 0, 30, 90, 135}

\* '#FDFDFD'
TextHex6 == <<"#", "F", "D", "F", "D", "F", "D">>

\* '#336'
TextHex3 == <<"#", "3", "3", "6">>

\* 'hsl(210 50% 40%)'
TextHsl ==
    <<"h", "s", "l", "(", "2", "1", "0", " ", "5", "0", "%", " ", "4", "0", "%", ")">>

\* 'red': none of the three shapes parseColor accepts
TextNamed == <<"r", "e", "d">>

TextEmpty == << >>

Bool(b) == [t |-> "boolean", v |-> b]

Bounds(x, y, width, height) ==
    [t |-> "object", x |-> x, y |-> y, width |-> width, height |-> height]

Position(x, y) == [t |-> "object", x |-> x, y |-> y]

\* the element rectangles of the model
BoundsSet == {Bounds(0, 0, 40, 20), Bounds(-50, -50, 100, 100)}

\* how far from the element's centre the pointer is, along a compass direction
Reach == 100

\* pointer positions: the centre of the rectangle and the eight compass
\* directions from it
PositionsAround(b) ==
    {Position(b.x + b.width \div 2 + dx * Reach, b.y + b.height \div 2 + dy * Reach) :
        dx \in -1..1, dy \in -1..1}

\* the rectangle and the pointer, each present or not
Geometries ==
    {<<b, m>> : b \in {Undefined}, m \in {Undefined, Null} \cup PositionsAround(Bounds(0, 0, 40, 20))}
    \cup UNION {{<<b, m>> : m \in {Undefined, Null} \cup PositionsAround(b)} : b \in BoundsSet}

\* mouse records, the fields a caller may omit omitted
MouseRecords ==
    {LightRecord("mouse", Undefined, Undefined, m, f) :
        m \in {Undefined, Num(60)}, f \in {Undefined, Num(90), Num(270)}}

LightRecords ==
    {LightRecord("static", Num(0), Undefined, Undefined, Undefined),
     LightRecord("custom", Num(30), Undefined, Undefined, Undefined),
     LightRecord("ambient", Undefined, Undefined, Undefined, Undefined)}
    \cup MouseRecords

LightSourceProps ==
    {Undefined, Num(0), Num(135), Str("mouse"), Str("ambient")} \cup LightRecords

\* what normalizeLightSource returns for them
LightSources == {normalizeLightSource(p) : p \in LightSourceProps}

\* The options of generateShadow in three groups: colour, shape and light
ColourGroups ==
    [background : {Undefined, Str(TextHex6), Str(TextNamed)},
     shadowColor : {Undefined, Str(TextEmpty), Str(TextHsl)},
     shadowColorDark : {Undefined, Str(TextHex3)},
     isDarkMode : {Undefined, Bool(FALSE), Bool(TRUE)}]

ShapeGroups ==
    [elevation : {Undefined} \cup {Num(n) : n \in {-MaxElevation, -7, 0, 10, 13, ElevDen}},
     intensity : {Undefined} \cup {Num(n) : n \in Intensities},
     scale : {Undefined} \cup {Num(n) : n \in Scales}]

\* the geometry generateShadow is given
ShadowGeometries ==
    LET b == Bounds(0, 0, 40, 20) IN
    {<<Undefined, Undefined>>, <<b, Undefined>>, <<b, Null>>,
     <<Undefined, Position(20 + Reach, 10)>>, <<b, Position(20, 10)>>,
     <<b, Position(20 + Reach, 10)>>, <<b, Position(20 - Reach, 10 - Reach)>>,
     <<b, Position(20, 10 + Reach)>>}

LightGroups ==
    {[lightSource |-> ls, elementBounds |-> g[1], mousePosition |-> g[2]] :
        ls \in LightSourceProps, g \in ShadowGeometries}

\* 'hsl(0 0% 0% / 0.075)'
TextLayerColor ==
    <<"h", "s", "l", "(", "0", " ", "0", "%", " ", "0", "%", " ", "/", " ",
      "0", ".", "0", "7", "5", ")">>

\* offsetX, offsetY, blur and spread of a layer, as numerators over PxDen:
\* whole pixels, halves, eighths, and lengths around 0.005px
LayerLengths ==
    {<<PxDen, PxDen, 2 * PxDen, 0>>,
     <<0, 0, 0, 0>>,
     <<0 - (3 * PxDen) \div 2, PxDen \div 400, 4 * PxDen, PxDen>>,
     <<PxDen \div 8, 0 - PxDen \div 400, PxDen \div 250, 0 - PxDen \div 400>>,
     <<12 * PxDen, 0 - PxDen \div 200, PxDen \div 200, 2 * PxDen>>}

\* the coloured layers layersToCSS is given directly
ColouredLayers ==
    {[offsetX |-> v[1], offsetY |-> v[2], blur |-> v[3], spread |-> v[4],
      opacity |-> BASE_OPACITY_NUM * ElevDen * IntensityDen, inset |-> i, color |-> c] :
        v \in LayerLengths, i \in BOOLEAN, c \in {TextLayerColor, TextNamed}}

\* how many layers a direct call of layersToCSS is given at most
MaxCssLayers == 2

LayerLists == UNION {[1..n -> ColouredLayers] : n \in 0..MaxCssLayers}

\* 'hsl(33 12.5% 15.5%)'
TextHslDecimals ==
    <<"h", "s", "l", "(", "3", "3", " ", "1", "2", ".", "5", "%", " ", "1", "5", ".", "5",
      "%", ")">>

\* 'HSL(120, 75.25%, 90%)'
TextHslCommas ==
    <<"H", "S", "L", "(", "1", "2", "0", ",", " ", "7", "5", ".", "2", "5", "%", ",", " ",
      "9", "0", "%", ")">>

\* 'hsl(12345)': the three numbers are found by backtracking
TextHslPacked == <<"h", "s", "l", "(", "1", "2", "3", "4", "5", ")">>

\* 'hsl(. 50% 50%)': a dot alone is matched by [\d.]+
TextHslDot ==
    <<"h", "s", "l", "(", ".", " ", "5", "0", "%", " ", "5", "0", "%", ")">>

\* 'rgb(255, 0, 12.5)'
TextRgb ==
    <<"r", "g", "b", "(", "2", "5", "5", ",", " ", "0", ",", " ", "1", "2", ".", "5", ")">>

\* 'rgb(12 200 90)'
TextRgbSpaces ==
    <<"r", "g", "b", "(", "1", "2", " ", "2", "0", "0", " ", "9", "0", ")">>

\* 'hsl(210 50%)': two numbers, which the pattern splits into three
TextHslShort == <<"h", "s", "l", "(", "2", "1", "0", " ", "5", "0", "%", ")">>

\* the hex digits the hex texts of the model are made of
HexDigitChoices == {"3", "c", "F"}

\* the longest run of hex digits tried after '#': one more than the pattern takes
MaxHexDigits == 9

\* '#' and 2 to MaxHexDigits hex digits, the first three of them free and
\* the rest one digit repeated
HexTexts ==
    {<<"#">> \o head \o [i \in 1..n |-> d] :
        head \in [1..2 -> HexDigitChoices] \cup [1..3 -> HexDigitChoices],
        n \in 0..(MaxHexDigits - 3), d \in HexDigitChoices}

\* the colour texts parseColor and calculateShadowColor are given directly
ColourTexts ==
    {TextHex6, TextHex3, TextHsl, TextNamed, TextEmpty, TextHslDecimals, TextHslCommas,
     TextHslPacked, TextHslDot, TextRgb, TextRgbSpaces, TextHslShort, FallbackDark,
     FallbackLight}
    \cup HexTexts

NoColour ==
    [background |-> Undefined, shadowColor |-> Undefined, shadowColorDark |-> Undefined,
     isDarkMode |-> Undefined]

NoShape == [elevation |-> Undefined, intensity |-> Undefined, scale |-> Undefined]

NoLight == [lightSource |-> Undefined, elementBounds |-> Undefined, mousePosition |-> Undefined]

GenerateShadowArgs(c, s, l) ==
    [options |-> ShadowOptions(s.elevation, l.lightSource, c.background, c.shadowColor,
                               c.shadowColorDark, s.intensity, s.scale, c.isDarkMode),
     elementBounds |-> l.elementBounds,
     mousePosition |-> l.mousePosition]

-----------------------------------------------------------------------------
(* The calls *)

\* generateShadow: every two groups in all their combinations, the third
\* left out of the options
\* no instance has been made
NoInstance ==
    /\ currentOptions = Undefined /\ instanceLightSource = Undefined
    /\ lastMousePosition = Null /\ smoothedPosition = Null /\ animationFrame = Null
    /\ isDestroyed = FALSE /\ style = Undefined /\ listening = FALSE
    /\ frames = {} /\ nextFrame = 1

\* no component is mounted
NoReact ==
    /\ isHovered = FALSE /\ isActive = FALSE /\ pressedOutside = FALSE
    /\ memo = Null /\ matches = FALSE /\ systemDarkMode = Null /\ handlers = {}

Init ==
    /\ pc = "start"
    /\ ret = Undefined
    /\ NoInstance
    /\ NoReact
    /\ \/ /\ call = "generateShadow"
          /\ \/ \E c \in ColourGroups, s \in ShapeGroups : args = GenerateShadowArgs(c, s, NoLight)
             \/ \E c \in ColourGroups, l \in LightGroups : args = GenerateShadowArgs(c, NoShape, l)
             \/ \E s \in ShapeGroups, l \in LightGroups : args = GenerateShadowArgs(NoColour, s, l)
       \/ /\ call = "calculateShadowLayers"
          /\ \E e \in Elevations, a \in Angles, i \in Intensities :
                args = [elevation |-> e, lightAngle |-> a, intensity |-> i]
       \/ /\ call = "calculateLightAngle"
          /\ \E ls \in LightSources, g \in Geometries :
                args = [lightSource |-> ls, elementBounds |-> g[1], mousePosition |-> g[2]]
       \/ /\ call = "normalizeLightSource"
          /\ \E p \in LightSourceProps : args = [source |-> p]
       \/ /\ call = "layersToCSS"
          /\ \E layers \in LayerLists : args = [layers |-> layers]
       \/ /\ call = "parseColor"
          /\ \E color \in ColourTexts : args = [color |-> color]
       \/ /\ call = "calculateShadowColor"
          /\ \E background \in ColourTexts, dark \in {Undefined, Bool(FALSE), Bool(TRUE)} :
                args = [background |-> background, isDarkMode |-> dark]

CallGenerateShadow ==
    /\ pc = "start" /\ call = "generateShadow"
    /\ ret' = generateShadow(args.options, args.elementBounds, args.mousePosition)
    /\ pc' = "done"
    /\ UNCHANGED <<call, args, instanceVars, reactVars>>

CallCalculateShadowLayers ==
    /\ pc = "start" /\ call = "calculateShadowLayers"
    /\ ret' = calculateShadowLayers(args.elevation, args.lightAngle, args.intensity)
    /\ pc' = "done"
    /\ UNCHANGED <<call, args, instanceVars, reactVars>>

CallCalculateLightAngle ==
    /\ pc = "start" /\ call = "calculateLightAngle"
    /\ ret' = calculateLightAngle(args.lightSource, args.elementBounds, args.mousePosition)
    /\ pc' = "done"
    /\ UNCHANGED <<call, args, instanceVars, reactVars>>

CallNormalizeLightSource ==
    /\ pc = "start" /\ call = "normalizeLightSource"
    /\ ret' = normalizeLightSource(args.source)
    /\ pc' = "done"
    /\ UNCHANGED <<call, args, instanceVars, reactVars>>

CallLayersToCSS ==
    /\ pc = "start" /\ call = "layersToCSS"
    /\ ret' = layersToCSS(args.layers)
    /\ pc' = "done"
    /\ UNCHANGED <<call, args, instanceVars, reactVars>>

CallParseColor ==
    /\ pc = "start" /\ call = "parseColor"
    /\ ret' = parseColor(args.color)
    /\ pc' = "done"
    /\ UNCHANGED <<call, args, instanceVars, reactVars>>

\* isDarkMode: boolean = false
CallCalculateShadowColor ==
    /\ pc = "start" /\ call = "calculateShadowColor"
    /\ ret' = calculateShadowColor(args.background, Default(args.isDarkMode, FALSE))
    /\ pc' = "done"
    /\ UNCHANGED <<call, args, instanceVars, reactVars>>

Next ==
    \/ CallGenerateShadow
    \/ CallCalculateShadowLayers
    \/ CallCalculateLightAngle
    \/ CallNormalizeLightSource
    \/ CallLayersToCSS
    \/ CallParseColor
    \/ CallCalculateShadowColor

Spec == Init /\ [][Next]_vars

-----------------------------------------------------------------------------
(* Properties *)

Returned(f) == pc = "done" /\ call = f

\* a colour option is set when the caller gave a colour text (not the empty text)
Given(x) == x # Undefined /\ x # Str(TextEmpty)

\* C1: generateShadow takes the shadow base colour by strict priority:
\* shadowColor whenever it is set; else shadowColorDark iff isDarkMode is
\* true and it is set; else the colour derived from background if that is
\* set; else the fixed fallback.
C1_ColourPriority ==
    Returned("generateShadow") =>
        LET o == args.options
            dark == o.isDarkMode = Bool(TRUE)
        IN  /\ Given(o.shadowColor) => ret.shadowColor = o.shadowColor.v
            /\ (~Given(o.shadowColor) /\ dark /\ Given(o.shadowColorDark))
                    => ret.shadowColor = o.shadowColorDark.v
            /\ (~Given(o.shadowColor) /\ ~(dark /\ Given(o.shadowColorDark))
                    /\ Given(o.background))
                    => ret.shadowColor = calculateShadowColor(o.background.v, dark)
            /\ (~Given(o.shadowColor) /\ ~(dark /\ Given(o.shadowColorDark))
                    /\ ~Given(o.background))
                    => ret.shadowColor = IF dark THEN FallbackDark ELSE FallbackLight

\* shadowColor set along with background, shadowColorDark and isDarkMode = true
C1_Witness ==
    /\ Returned("generateShadow")
    /\ Given(args.options.shadowColor) /\ Given(args.options.shadowColorDark)
    /\ Given(args.options.background) /\ args.options.isDarkMode = Bool(TRUE)
    /\ ret.shadowColor = args.options.shadowColor.v
    /\ ret.shadowColor # args.options.shadowColorDark.v

AmbientProp(ls) == ls = Str("ambient") \/ TypeOf(ls) = "ambient"

ElevationOf(o) == IF o.elevation = Undefined THEN (3 * ElevDen) \div 10 ELSE o.elevation.v

ScaleOf(o) == IF o.scale = Undefined THEN ScaleDen ELSE o.scale.v

\* C2: with the ambient light source and a non-zero elevation every layer
\* generateShadow produces has offsetX = 0 and offsetY = 0.
C2_AmbientNoOffset ==
    (Returned("generateShadow") /\ AmbientProp(args.options.lightSource)
        /\ ElevationOf(args.options) # 0)
    => \A i \in 1..Len(ret.layers) :
            ret.layers[i].offsetX = 0 /\ ret.layers[i].offsetY = 0

\* layer i (from 1) is fully active at elevation e (a numerator over ElevDen)
FullyActive(i, e) == i * ElevDen <= Min(Abs(e), ElevDen) * MAX_LAYERS

WithScale(o, s) == [o EXCEPT !.scale = s]

\* C3: scale multiplies the size: a fully active layer i (from 0) has
\* blur = 2^i * scale, and generateShadow with scale = k gives blur and
\* offsets k times those with scale = 1, all else equal.
C3_ScaleMultipliesSize ==
    Returned("generateShadow") =>
        LET o == args.options
            one == generateShadow(WithScale(o, Num(ScaleDen)), args.elementBounds,
                                  args.mousePosition).layers
        IN  \A i \in 1..Len(ret.layers) :
                /\ FullyActive(i, ElevationOf(o))
                        => ret.layers[i].blur * ScaleDen = Pow2(i - 1) * ScaleOf(o) * PxDen
                /\ ret.layers[i].blur * ScaleDen = ScaleOf(o) * one[i].blur
                /\ ret.layers[i].offsetX * ScaleDen = ScaleOf(o) * one[i].offsetX
                /\ ret.layers[i].offsetY * ScaleDen = ScaleOf(o) * one[i].offsetY

\* C4: intensity multiplies the opacity alone: a fully active layer has
\* opacity = 0.075 * intensity, and two calls of calculateShadowLayers that
\* differ only in intensity give the same offsetX, offsetY and blur.
C4_IntensityOnlyOpacity ==
    Returned("calculateShadowLayers") =>
        LET one == calculateShadowLayers(args.elevation, args.lightAngle, IntensityDen)
        IN  \A i \in 1..Len(ret) :
                /\ FullyActive(i, args.elevation)
                        => ret[i].opacity * BASE_OPACITY_DEN * IntensityDen
                            = BASE_OPACITY_NUM * args.intensity * OpacityDen
                /\ ret[i].blur = one[i].blur
                /\ ret[i].offsetX = one[i].offsetX
                /\ ret[i].offsetY = one[i].offsetY

Sign(e) == IF e < 0 THEN -1 ELSE 1

\* ceil(|e| * 5) and the fractional part of |e| * 5 (a numerator over ElevDen)
CeilLayers(e) == (Abs(e) * MAX_LAYERS + ElevDen - 1) \div ElevDen

Fraction(e) == (Abs(e) * MAX_LAYERS) % ElevDen

\* layer a is layer b with blur, offsets and opacity multiplied by f / ElevDen
ScaledBy(a, b, f) ==
    /\ a.blur * ElevDen = b.blur * f
    /\ a.offsetX * ElevDen = b.offsetX * f
    /\ a.offsetY * ElevDen = b.offsetY * f
    /\ a.opacity * ElevDen = b.opacity * f
    /\ a.spread = b.spread /\ a.inset = b.inset

\* C5: for 0 < |e| <= 1 calculateShadowLayers returns ceil(|e| * 5) layers at
\* consecutive indices; all but possibly the last are the full layers (those
\* at elevation +-1, whose blur doubles from index to index), and when
\* |e| * 5 is not whole the last is the full layer of its index multiplied by
\* the fractional part of |e| * 5, a factor strictly between 0 and 1.
C5_LayerCountAndPartial ==
    (Returned("calculateShadowLayers") /\ args.elevation # 0
        /\ Abs(args.elevation) <= ElevDen)
    => LET e == args.elevation
           n == CeilLayers(e)
           f == Fraction(e)
           full == calculateShadowLayers(Sign(e) * ElevDen, args.lightAngle, args.intensity)
       IN  /\ Len(ret) = n
           /\ Len(full) = MAX_LAYERS
           /\ \A i \in 1..n :
                /\ full[i].blur = Pow2(i - 1) * full[1].blur
                /\ IF i < n \/ f = 0 THEN ret[i] = full[i]
                   ELSE 0 < f /\ f < ElevDen /\ ScaledBy(ret[i], full[i], f)

\* three layers, the third a partial one
C5_Witness ==
    /\ Returned("calculateShadowLayers")
    /\ args.elevation = 11 /\ Fraction(args.elevation) = 15
    /\ Len(ret) = 3
    /\ ret[3].blur * 4 = 3 * 2 * ret[2].blur

\* C6: for |e| > 1 calculateShadowLayers returns exactly the layer sequence
\* it returns for sign(e) * 1, the angle and the intensity being the same.
C6_ClampIdempotent ==
    (Returned("calculateShadowLayers") /\ Abs(args.elevation) > ElevDen)
    => ret = calculateShadowLayers(Sign(args.elevation) * ElevDen, args.lightAngle,
                                   args.intensity)

C6_Witness ==
    /\ Returned("calculateShadowLayers")
    /\ args.elevation > ElevDen
    /\ Len(ret) = MAX_LAYERS
    /\ ret = calculateShadowLayers(ElevDen, args.lightAngle, args.intensity)

\* C7: elevation 0 is the no-shadow state: calculateShadowLayers(0, ...) is
\* the empty sequence for every angle and intensity and generateShadow then
\* gives boxShadow 'none'; every other elevation gives at least one layer and
\* a boxShadow that is not 'none'.
C7_ZeroIsNoShadow ==
    /\ Returned("calculateShadowLayers") => (args.elevation = 0 <=> ret = << >>)
    /\ Returned("generateShadow") =>
            IF ElevationOf(args.options) = 0
            THEN ret.layers = << >> /\ ret.boxShadow = CssNone
            ELSE Len(ret.layers) >= 1 /\ ret.boxShadow # CssNone

C7_Witness ==
    /\ Returned("generateShadow")
    /\ args.options.elevation = Num(0)
    /\ ret.layers = << >> /\ ret.boxShadow = CssNone

\* C8: for e in (0, 1] calculateShadowLayers(-e, ...) and
\* calculateShadowLayers(e, ...) have the same length and pairwise the same
\* blur, spread and opacity, offsetX and offsetY negated, inset true for -e
\* and false for e; within one call all layers carry the same inset flag.
C8_InsetMirrorsOutset ==
    Returned("calculateShadowLayers") =>
        /\ \A i, j \in 1..Len(ret) : ret[i].inset = ret[j].inset
        /\ args.elevation \in 1..ElevDen =>
                LET neg == calculateShadowLayers(-args.elevation, args.lightAngle,
                                                 args.intensity)
                IN  /\ Len(neg) = Len(ret)
                    /\ \A i \in 1..Len(ret) :
                            /\ neg[i].blur = ret[i].blur
                            /\ neg[i].spread = ret[i].spread
                            /\ neg[i].opacity = ret[i].opacity
                            /\ neg[i].offsetX = -ret[i].offsetX
                            /\ neg[i].offsetY = -ret[i].offsetY
                            /\ neg[i].inset /\ ~ret[i].inset

C8_Witness ==
    /\ Returned("calculateShadowLayers")
    /\ args.elevation \in 1..ElevDen
    /\ ret[1].offsetX > 0 /\ ret[1].offsetY < 0
    /\ LET neg == calculateShadowLayers(-args.elevation, args.lightAngle, args.intensity)
       IN  neg[1].offsetX = -ret[1].offsetX /\ neg[1].offsetY > 0 /\ neg[1].inset

\* the blur of layer i (from 1), a layer that is absent counting as 0
BlurAt(layers, i) == IF i <= Len(layers) THEN layers[i].blur ELSE 0

\* C9: the angle and the intensity fixed, for every layer index and every
\* 0 <= e1 <= e2 <= 1 the blur of the layer at e2 is at least its blur at e1
\* (a layer that is absent counting as blur 0).
C9_BlurMonotone ==
    (Returned("calculateShadowLayers") /\ args.elevation \in 0..ElevDen)
    => \A e1 \in 0..args.elevation, i \in 1..MAX_LAYERS :
            BlurAt(calculateShadowLayers(e1, args.lightAngle, args.intensity), i)
                <= BlurAt(ret, i)

\* a boundary layer that grew, and a layer that appeared
C9_Witness ==
    /\ Returned("calculateShadowLayers")
    /\ args.elevation = 11
    /\ LET before == calculateShadowLayers(10, args.lightAngle, args.intensity)
           first == calculateShadowLayers(8, args.lightAngle, args.intensity)
       IN  /\ 0 < BlurAt(before, 3) /\ BlurAt(before, 3) < BlurAt(ret, 3)
           /\ BlurAt(first, 3) = 0

\* C10: for a mouse light source calculateLightAngle returns fallbackAngle
\* (-45 when the record omits it) whenever the rectangle or the pointer is
\* missing or null, whatever the other argument is.
C10_MouseFallback ==
    (Returned("calculateLightAngle") /\ TypeOf(args.lightSource) = "mouse"
        /\ (args.elementBounds \in {Undefined, Null}
            \/ args.mousePosition \in {Undefined, Null}))
    => ret = IF args.lightSource.fallbackAngle = Undefined THEN -45
             ELSE args.lightSource.fallbackAngle.v

\* the rectangle given, the pointer null, a fallback of the caller's
C10_Witness ==
    /\ Returned("calculateLightAngle") /\ TypeOf(args.lightSource) = "mouse"
    /\ args.elementBounds \in BoundsSet /\ args.mousePosition = Null
    /\ args.lightSource.fallbackAngle = Num(90)
    /\ ret = 90

\* the mouse branch of calculateLightAngle was taken: a mouse light source,
\* the rectangle and the pointer both present
MouseTracked ==
    /\ Returned("calculateLightAngle") /\ TypeOf(args.lightSource) = "mouse"
    /\ ~Nullish(args.elementBounds) /\ ~Nullish(args.mousePosition)

\* the raw angle: atan2 from the rectangle's centre to the pointer, plus 180
RawAngle ==
    Atan2Deg(2 * args.mousePosition.y - (2 * args.elementBounds.y + args.elementBounds.height),
             2 * args.mousePosition.x - (2 * args.elementBounds.x + args.elementBounds.width))
        + 180

FallbackOf(ls) == IF ls.fallbackAngle = Undefined THEN -45 ELSE ls.fallbackAngle.v

MaxAngleOf(ls) == IF ls.maxAngle = Undefined THEN 30 ELSE ls.maxAngle.v

\* the difference a - b wrapped into (-180, 180]
ShortestDiff(a, b) == 180 - ((180 - (a - b)) % 360)

\* the difference a - b wrapped into [-180, 180], the direction exactly
\* opposite keeping the sign of a - b
ShortestDiffSigned(a, b) ==
    IF (a - b) % 360 = 180 THEN (IF a < b THEN -180 ELSE 180) ELSE ShortestDiff(a, b)

\* C11 (as claimed): with the rectangle and the pointer present the mouse
\* angle is fallbackAngle + clamp(d, -maxAngle, maxAngle), d the difference
\* between the raw angle and fallbackAngle wrapped into (-180, 180].
C11_MouseAngleHalfOpen ==
    MouseTracked
    => LET f == FallbackOf(args.lightSource)
           m == MaxAngleOf(args.lightSource)
       IN  ret = f + Max(-m, Min(m, ShortestDiff(RawAngle, f)))

\* C11 (amended): with the rectangle and the pointer present the mouse angle
\* is fallbackAngle + clamp(d, -maxAngle, maxAngle), d the difference between
\* the raw angle and fallbackAngle wrapped into [-180, 180] (the opposite
\* direction keeps the sign of the difference); the result lies within
\* maxAngle of fallbackAngle; the pointer at the centre gives the result of
\* the pointer directly to its right.
C11_MouseAngleClamped ==
    MouseTracked
    => LET f == FallbackOf(args.lightSource)
           m == MaxAngleOf(args.lightSource)
           b == args.elementBounds
           centre == Position(b.x + b.width \div 2, b.y + b.height \div 2)
           right == Position(centre.x + Reach, centre.y)
       IN  /\ ret = f + Max(-m, Min(m, ShortestDiffSigned(RawAngle, f)))
           /\ Abs(ret - f) <= m
           /\ (args.mousePosition = centre
                 => ret = calculateLightAngle(args.lightSource, b, right))

\* centre (0, 0), the pointer directly to its right, fallback -45 and
\* maxAngle 60: exactly -105
C11_Witness ==
    /\ MouseTracked
    /\ args.elementBounds = Bounds(-50, -50, 100, 100)
    /\ args.mousePosition = Position(Reach, 0)
    /\ args.lightSource.maxAngle = Num(60)
    /\ FallbackOf(args.lightSource) = -45
    /\ ret = -105

\* C12: normalizeLightSource returns a light source record carrying a type
\* tag for every shorthand: undefined gives static at -45, a number n gives
\* static at n, 'mouse' gives mouse with smoothing 0.1, the default maximum
\* angle and fallback -45, 'ambient' gives a record of type ambient, and a
\* full record is returned unchanged.
C12_NormalizeTagged ==
    Returned("normalizeLightSource")
    => /\ ret.t = "object"
       /\ ret.type \in {"static", "mouse", "custom", "ambient"}
       /\ (args.source = Undefined
             => ret.type = "static" /\ ret.angle = Num(-45))
       /\ (args.source.t = "number"
             => ret.type = "static" /\ ret.angle = args.source)
       /\ (args.source = Str("mouse")
             => /\ ret.type = "mouse" /\ ret.smoothing = Num(1)
                /\ ret.maxAngle = Num(30) /\ ret.fallbackAngle = Num(-45))
       /\ (args.source = Str("ambient") => ret.type = "ambient")
       /\ (args.source.t = "object" => ret = args.source)

StartsWith(text, prefix) ==
    Len(text) >= Len(prefix) /\ SubSeq(text, 1, Len(prefix)) = prefix

EndsWith(text, suffix) ==
    Len(text) >= Len(suffix) /\ SubSeq(text, Len(text) - Len(suffix) + 1, Len(text)) = suffix

\* the first position at which part occurs in text, 0 if it does not
FirstAt(text, part) ==
    LET at == {i \in 1..Len(text) : StartsWith(SubSeq(text, i, Len(text)), part)}
    IN  IF at = {} THEN 0 ELSE CHOOSE i \in at : \A j \in at : i <= j

\* the pieces of text between the occurrences of sep
RECURSIVE SplitAt(_, _)
SplitAt(text, sep) ==
    LET i == FirstAt(text, sep) IN
    IF i = 0 THEN <<text>>
    ELSE <<SubSeq(text, 1, i - 1)>> \o SplitAt(SubSeq(text, i + Len(sep), Len(text)), sep)

InsetText == <<"i", "n", "s", "e", "t", " ">>

\* the number a length token prints, in hundredths: an optional sign, digits,
\* up to two decimals and an optional unit
TokenHundredths(token) ==
    LET unsigned == IF token[1] = "-" THEN Tail(token) ELSE token
        hundredths == (100 * parseFloat(unsigned)) \div ColorDen
    IN  IF token[1] = "-" THEN 0 - hundredths ELSE hundredths

\* a layer's length to two decimals, in hundredths
Hundredths(value) == RoundDiv(100 * value, PxDen)

\* entry is `[inset ]<offsetX> <offsetY> <blur> [<spread> ]<color>` for layer
EntryOf(entry, layer) ==
    LET body == IF StartsWith(entry, InsetText)
                THEN SubSeq(entry, Len(InsetText) + 1, Len(entry)) ELSE entry
        lengths == SubSeq(body, 1, Len(body) - Len(layer.color) - 1)
        tokens == SplitAt(lengths, <<" ">>)
    IN  /\ StartsWith(entry, InsetText) <=> layer.inset
        /\ EndsWith(body, <<" ">> \o layer.color)
        /\ Len(tokens) = IF layer.spread # 0 THEN 4 ELSE 3
        /\ \A k \in 1..Len(tokens) : tokens[k] # << >>
        /\ TokenHundredths(tokens[1]) = Hundredths(layer.offsetX)
        /\ TokenHundredths(tokens[2]) = Hundredths(layer.offsetY)
        /\ TokenHundredths(tokens[3]) = Hundredths(layer.blur)
        /\ (layer.spread # 0 => TokenHundredths(tokens[4]) = Hundredths(layer.spread))

\* { offsetX: 1, offsetY: 1, blur: 2, spread: 0, color: 'hsl(0 0% 0% / 0.075)',
\* inset: false }
ExampleLayer ==
    [offsetX |-> PxDen, offsetY |-> PxDen, blur |-> 2 * PxDen, spread |-> 0,
     opacity |-> BASE_OPACITY_NUM * ElevDen * IntensityDen, inset |-> FALSE,
     color |-> TextLayerColor]

\* C13: layersToCSS emits one entry per layer, in the order of the layers,
\* separated by commas; each entry is `[inset ]<offsetX> <offsetY> <blur>
\* [<spread> ]<color>`, the inset prefix there iff the layer is inset and the
\* spread token iff the spread is not zero; the single layer 1, 1, 2, 0,
\* 'hsl(0 0% 0% / 0.075)', not inset, gives exactly
\* '1px 1px 2px hsl(0 0% 0% / 0.075)'.
C13_EntryPerLayer ==
    (Returned("layersToCSS") /\ Len(args.layers) > 0)
    => LET entries == SplitAt(ret, CssSeparator) IN
       /\ Len(entries) = Len(args.layers)
       /\ \A i \in 1..Len(entries) : EntryOf(entries[i], args.layers[i])
       /\ (args.layers = <<ExampleLayer>>
             => ret = <<"1", "p", "x", " ", "1", "p", "x", " ", "2", "p", "x", " ">>
                      \o TextLayerColor)

\* two layers: the first inset with a spread, the second neither
C13_Witness ==
    /\ Returned("layersToCSS") /\ Len(args.layers) = 2
    /\ args.layers[1].inset /\ args.layers[1].spread = PxDen
    /\ args.layers[2] = ExampleLayer
    /\ FirstAt(ret, CssSeparator) > 0
    /\ StartsWith(ret, InsetText)

\* the length tokens of entry, the entry of layer
LengthTokens(entry, layer) ==
    LET body == IF layer.inset THEN SubSeq(entry, Len(InsetText) + 1, Len(entry)) ELSE entry
    IN  SplitAt(SubSeq(body, 1, Len(body) - Len(layer.color) - 1), <<" ">>)

\* the lengths of layer that are printed, in the order of the tokens
PrintedLengths(layer) ==
    IF layer.spread # 0 THEN <<layer.offsetX, layer.offsetY, layer.blur, layer.spread>>
    ELSE <<layer.offsetX, layer.offsetY, layer.blur>>

PxText == <<"p", "x">>

\* text is a number as it is printed: digits, and at most two decimals of
\* which the last is not 0
PrintedNumber(text) ==
    LET unsigned == IF StartsWith(text, <<"-">>) THEN Tail(text) ELSE text
        whole == RunLength(unsigned, 1, DigitSet, Len(unsigned))
        rest == SubSeq(unsigned, whole + 1, Len(unsigned))
    IN  /\ whole >= 1
        /\ \/ rest = << >>
           \/ /\ rest[1] = "." /\ Len(rest) \in 2..3
              /\ \A k \in 2..Len(rest) : rest[k] \in DigitSet
              /\ rest[Len(rest)] # "0"

\* the layers a call printed and the text it printed them to
PrintedLayers ==
    IF Returned("layersToCSS") THEN args.layers
    ELSE IF Returned("generateShadow") THEN ret.layers ELSE << >>

PrintedCss == IF Returned("layersToCSS") THEN ret ELSE ret.boxShadow

\* C14 (as claimed): the token '0px' (or '-0px') never appears in an output
\* of layersToCSS, whatever the layer values, those with a magnitude below
\* 0.005 included.
C14_NeverZeroPx ==
    (Returned("layersToCSS") /\ Len(args.layers) > 0)
    => LET entries == SplitAt(ret, CssSeparator) IN
       \A i \in 1..Len(entries) :
           LET tokens == LengthTokens(entries[i], args.layers[i]) IN
           \A k \in 1..Len(tokens) :
               tokens[k] \notin {<<"0", "p", "x">>, <<"-", "0", "p", "x">>}

\* C14 (amended): every length token is the layer's value rounded to two
\* decimals followed by 'px', a value of exactly zero being the bare token
\* '0'; a value that is not zero and rounds to zero is printed '0px'; '-0px'
\* is never printed.
C14_LengthTokens ==
    Len(PrintedLayers) > 0
    => LET entries == SplitAt(PrintedCss, CssSeparator) IN
       \A i \in 1..Len(entries) :
           LET tokens == LengthTokens(entries[i], PrintedLayers[i])
               values == PrintedLengths(PrintedLayers[i])
           IN  /\ Len(tokens) = Len(values)
               /\ \A k \in 1..Len(tokens) :
                     IF values[k] = 0 THEN tokens[k] = <<"0">>
                     ELSE LET number == SubSeq(tokens[k], 1, Len(tokens[k]) - 2) IN
                          /\ EndsWith(tokens[k], PxText)
                          /\ PrintedNumber(number)
                          /\ TokenHundredths(number) = Hundredths(values[k])
                          /\ number # <<"-", "0">>

\* a layer with an offset of exactly zero, printed '0', and one of 0.0025,
\* printed '0px'
C14_Witness ==
    /\ Returned("layersToCSS") /\ Len(args.layers) = 2
    /\ args.layers[1].offsetX = 0 /\ ~args.layers[1].inset
    /\ StartsWith(ret, <<"0", " ">>)
    /\ args.layers[2].offsetY = PxDen \div 400
    /\ LengthTokens(SplitAt(ret, CssSeparator)[2], args.layers[2])[2] = <<"0", "p", "x">>

\* C15: generateShadow is total: whatever the options (any elevation, every
\* light source shorthand, the ambient marker and partial mouse records
\* included, colours that do not parse, any intensity and scale) and
\* whether the rectangle and the pointer are given or not, it returns a
\* result with layers, boxShadow and cssVariables and does not throw.
C15_GenerateShadowTotal ==
    Returned("generateShadow")
    => /\ {"layers", "boxShadow", "cssVariables"} \subseteq DOMAIN ret
       /\ Len(ret.layers) \in 0..MAX_LAYERS
       /\ Len(ret.boxShadow) > 0
       /\ ret.cssVariables["--lifted-layers"] = NatToText(Len(ret.layers))

\* the ambient marker, a background that does not parse, no rectangle
C15_Witness ==
    /\ Returned("generateShadow")
    /\ args.options.lightSource = Str("ambient")
    /\ args.options.background = Str(TextNamed)
    /\ args.elementBounds = Undefined /\ args.mousePosition # Undefined
    /\ Len(ret.layers) > 0

\* C16: for every background parseColor accepts, parsed to (h, s, l),
\* calculateShadowColor returns in light mode hue h, saturation s * 0.6 and
\* lightness max(10, l * 0.5), in dark mode hue h, saturation max(0, s - 20)
\* and lightness min(100, l + 30); parseColor accepts the returned text and
\* gives exactly that triple.
C16_ShadowColorRoundTrip ==
    (Returned("calculateShadowColor") /\ parseColor(args.background) # Null)
    => LET p == parseColor(args.background)
           again == parseColor(ret)
       IN  /\ again # Null
           /\ again.h = p.h
           /\ IF args.isDarkMode = Bool(TRUE)
              THEN /\ again.s = Max(0, p.s - 20 * ColorDen)
                   /\ again.l = Min(100 * ColorDen, p.l + 30 * ColorDen)
              ELSE /\ 10 * again.s = 6 * p.s
                   /\ again.l = Max(10 * ColorDen, p.l \div 2) /\ p.l % 2 = 0

\* the base colour of a generateShadow call is the engine's own: no
\* shadowColor, and no shadowColorDark in dark mode
EngineColour ==
    /\ Returned("generateShadow")
    /\ ~Truthy(args.options.shadowColor)
    /\ ~(args.options.isDarkMode = Bool(TRUE) /\ Truthy(args.options.shadowColorDark))

\* 'hsl(0 0% 100% / '
WhitePrefix ==
    <<"h", "s", "l", "(", "0", " ", "0", "%", " ", "1", "0", "0", "%", " ", "/", " ">>

\* `hsl(h s% l% / `, h, s and l those of the base colour `hsl(h s% l%)` or
\* `hsl(h s% l% / a)`
BasePrefix(base) ==
    IF base = FallbackDark THEN WhitePrefix
    ELSE SubSeq(base, 1, Len(base) - 1) \o <<" ", "/", " ">>

\* C17: when the base colour is the engine's own (derived from the
\* background, or one of the two fixed fallbacks) every layer's colour is the
\* base colour's hue, saturation and lightness with the layer's opacity; in
\* dark mode with no shadowColor, no shadowColorDark and no background (or
\* one that does not parse) every layer's colour is the white fallback
\* 0 0% 100%, not 220 3% 15%.
C17_LayersKeepBaseColour ==
    EngineColour
    => /\ \A i \in 1..Len(ret.layers) :
             /\ StartsWith(ret.layers[i].color, BasePrefix(ret.shadowColor))
             /\ EndsWith(ret.layers[i].color, <<")">>)
       /\ ((args.options.isDarkMode = Bool(TRUE)
             /\ (~Truthy(args.options.background)
                   \/ parseColor(args.options.background.v) = Null))
            => \A i \in 1..Len(ret.layers) : StartsWith(ret.layers[i].color, WhitePrefix))

\* how many hex digits follow '#', the text being '#' and hex digits only;
\* 0 for every other text
HexDigitsOf(color) ==
    IF Len(color) >= 2 /\ color[1] = "#" /\ \A i \in 2..Len(color) : color[i] \in HexSet
    THEN Len(color) - 1 ELSE 0

\* the texts of the model that have none of the hex, hsl and rgb shapes
ShapelessTexts ==
    {TextNamed, TextEmpty}
    \cup {c \in HexTexts : HexDigitsOf(c) \notin 3..8}

\* C18: of '#' and 3 to 8 hex digits parseColor reads the leading colour
\* digits only: four digits '#rgba' parse as '#rgb', seven or eight digits
\* as the first six; a text with none of the hex, hsl and rgb shapes gives
\* null.
C18_HexLeadingDigits ==
    Returned("parseColor")
    => /\ HexDigitsOf(args.color) \in 3..8 => ret # Null
       /\ HexDigitsOf(args.color) = 4 => ret = parseColor(SubSeq(args.color, 1, 4))
       /\ HexDigitsOf(args.color) \in 7..8 => ret = parseColor(SubSeq(args.color, 1, 7))
       /\ args.color \in ShapelessTexts => ret = Null

-----------------------------------------------------------------------------
(* The vanilla instance: init.ts lines 19-126 *)

\* how many animation frames an instance may request
MaxFrames == 3

\* pointer positions and the element's rectangle are numerators over PosDen:
\* smoothing by tenths stays exact for every frame an instance may request
PosDen == Pow10(MaxFrames + 1)

\* getBounds(): the element's rectangle, its centre at (0, 0)
getBounds == Bounds(-50 * PosDen, -50 * PosDen, 100 * PosDen, 100 * PosDen)

\* t is a numerator over 10
lerp(start, end, t) == start + ((end - start) * t) \div 10

smoothPosition(current, target, smoothing) ==
    Position(lerp(current.x, target.x, smoothing), lerp(current.y, target.y, smoothing))

\* 'box-shadow <durationMs>ms cubic-bezier(0.2, 0.6, 0.3, 1)'
generateTransition(durationMs) ==
    <<"b", "o", "x", "-", "s", "h", "a", "d", "o", "w", " ">> \o NatToText(durationMs)
    \o <<"m", "s", " ", "c", "u", "b", "i", "c", "-", "b", "e", "z", "i", "e", "r", "(",
         "0", ".", "2", ",", " ", "0", ".", "6", ",", " ", "0", ".", "3", ",", " ", "1", ")">>

\* the options of an instance: elevation, lightSource, background and
\* animated; the other options are never given
InstanceOptions(elevation, lightSource, background, animated) ==
    [elevation |-> elevation, lightSource |-> lightSource, background |-> background,
     animated |-> animated]

\* updateShadow without the test of isDestroyed
updateShadowUnguarded(destroyed, options, smoothed, boxShadow) ==
    generateShadow(
        ShadowOptions(Num(OrElse(options.elevation, (3 * ElevDen) \div 10)),
                      options.lightSource, options.background, Undefined, Undefined,
                      Num(IntensityDen), Undefined, Bool(FALSE)),
        getBounds, smoothed).boxShadow

\* updateShadow: the boxShadow of the element after it, boxShadow being the
\* one before
updateShadow(destroyed, options, smoothed, boxShadow) ==
    IF destroyed THEN boxShadow
    ELSE generateShadow(
             ShadowOptions(Num(OrElse(options.elevation, (3 * ElevDen) \div 10)),
                           options.lightSource, options.background, Undefined, Undefined,
                           Num(IntensityDen), Undefined, Bool(FALSE)),
             getBounds, smoothed).boxShadow

\* the options instances are made with
InitialOptions ==
    {InstanceOptions(Undefined, ls, Undefined, a) :
        ls \in {Undefined, Str("mouse")}, a \in {Undefined, Bool(FALSE)}}

\* the arguments of setElevation, setLightSource and update
NewElevations == {Num(ElevDen \div 2)}

NewLightSources == {Num(90), Str("mouse")}

NewOptions ==
    {[elevation |-> Num(0)], [lightSource |-> Str("mouse")],
     [background |-> Str(TextHex6), lightSource |-> Num(90)]}

\* where the pointer goes: left and right of the element's centre
PointerPositions == {Position(x * Reach * PosDen, 0) : x \in {-1, 1}}

\* { ...currentOptions, ...newOptions }
Spread(options, newOptions) ==
    [k \in DOMAIN options |-> IF k \in DOMAIN newOptions THEN newOptions[k] ELSE options[k]]

\* the instance initLiftedBox(element, options) returns
VanillaInit ==
    \E options \in InitialOptions :
        /\ currentOptions = options
        /\ instanceLightSource = normalizeLightSource(options.lightSource)
        /\ lastMousePosition = Null /\ smoothedPosition = Null /\ animationFrame = Null
        /\ isDestroyed = FALSE
        /\ style = [backgroundColor |-> IF Truthy(options.background)
                                        THEN options.background.v ELSE << >>,
                    transition |-> IF options.animated # Bool(FALSE)
                                   THEN generateTransition(150) ELSE << >>,
                    boxShadow |-> updateShadow(FALSE, options, Null, << >>)]
        /\ listening = (TypeOf(normalizeLightSource(options.lightSource)) = "mouse")
        /\ frames = {} /\ nextFrame = 1
        /\ pc = "done" /\ call = "initLiftedBox" /\ args = Undefined /\ ret = Undefined
        /\ NoReact

setElevation(elevation) ==
    LET options == [currentOptions EXCEPT !.elevation = elevation] IN
    /\ currentOptions' = options
    /\ style' = [style EXCEPT !.boxShadow =
                    updateShadow(isDestroyed, options, smoothedPosition, style.boxShadow)]
    /\ call' = "setElevation"
    /\ UNCHANGED <<pc, args, ret, reactVars, instanceLightSource, lastMousePosition, smoothedPosition,
                   animationFrame, isDestroyed, listening, frames, nextFrame>>

setLightSource(source) ==
    LET options == [currentOptions EXCEPT !.lightSource = source] IN
    /\ currentOptions' = options
    /\ style' = [style EXCEPT !.boxShadow =
                    updateShadow(isDestroyed, options, smoothedPosition, style.boxShadow)]
    /\ call' = "setLightSource"
    /\ UNCHANGED <<pc, args, ret, reactVars, instanceLightSource, lastMousePosition, smoothedPosition,
                   animationFrame, isDestroyed, listening, frames, nextFrame>>

update(newOptions) ==
    LET options == Spread(currentOptions, newOptions)
        given == "background" \in DOMAIN newOptions /\ Truthy(newOptions.background)
    IN  /\ currentOptions' = options
        /\ style' = [style EXCEPT
                        !.backgroundColor = IF given THEN newOptions.background.v ELSE @,
                        !.boxShadow = updateShadow(isDestroyed, options, smoothedPosition, @)]
        /\ call' = "update"
        /\ UNCHANGED <<pc, args, ret, reactVars, instanceLightSource, lastMousePosition,
                       smoothedPosition, animationFrame, isDestroyed, listening, frames,
                       nextFrame>>

\* handleMouseMove without the cancelAnimationFrame before the request
handleMouseMoveNoCancel(position) ==
    /\ lastMousePosition' = position
    /\ IF TypeOf(instanceLightSource) = "mouse"
       THEN /\ nextFrame <= MaxFrames
            /\ smoothedPosition' =
                  IF smoothedPosition # Null
                  THEN smoothPosition(smoothedPosition, position,
                                      OrElse(instanceLightSource.smoothing, 1))
                  ELSE position
            /\ frames' = frames \cup {nextFrame}
            /\ animationFrame' = Num(nextFrame)
            /\ nextFrame' = nextFrame + 1
       ELSE UNCHANGED <<smoothedPosition, frames, animationFrame, nextFrame>>

\* handleMouseMove: lines 61-76
handleMouseMove(position) ==
    /\ lastMousePosition' = position
    /\ IF TypeOf(instanceLightSource) = "mouse"
       THEN /\ nextFrame <= MaxFrames
            /\ smoothedPosition' =
                  IF smoothedPosition # Null
                  THEN smoothPosition(smoothedPosition, position,
                                      OrElse(instanceLightSource.smoothing, 1))
                  ELSE position
            /\ frames' = (frames \ {OrElse(animationFrame, 0)}) \cup {nextFrame}
            /\ animationFrame' = Num(nextFrame)
            /\ nextFrame' = nextFrame + 1
       ELSE UNCHANGED <<smoothedPosition, frames, animationFrame, nextFrame>>

\* the pointer moves over the window: the listeners of mousemove are called
mousemove(position) ==
    /\ IF listening THEN handleMouseMove(position)
       ELSE UNCHANGED <<lastMousePosition, smoothedPosition, frames, animationFrame, nextFrame>>
    /\ call' = "mousemove"
    /\ UNCHANGED <<pc, args, ret, reactVars, currentOptions, instanceLightSource, isDestroyed, style,
                   listening>>

\* the browser runs the callback of a requested animation frame
runAnimationFrame(handle) ==
    /\ handle \in frames
    /\ frames' = frames \ {handle}
    /\ style' = [style EXCEPT !.boxShadow =
                    updateShadow(isDestroyed, currentOptions, smoothedPosition, @)]
    /\ call' = "requestAnimationFrame"
    /\ UNCHANGED <<pc, args, ret, reactVars, currentOptions, instanceLightSource, lastMousePosition,
                   smoothedPosition, animationFrame, isDestroyed, listening, nextFrame>>

destroy ==
    /\ isDestroyed' = TRUE
    /\ frames' = frames \ {OrElse(animationFrame, 0)}
    /\ listening' = FALSE
    /\ style' = [style EXCEPT !.boxShadow = << >>, !.transition = << >>]
    /\ call' = "destroy"
    /\ UNCHANGED <<pc, args, ret, reactVars, currentOptions, instanceLightSource, lastMousePosition,
                   smoothedPosition, animationFrame, nextFrame>>

VanillaNext ==
    \/ \E elevation \in NewElevations : setElevation(elevation)
    \/ \E source \in NewLightSources : setLightSource(source)
    \/ \E newOptions \in NewOptions : update(newOptions)
    \/ \E position \in PointerPositions : mousemove(position)
    \/ \E handle \in frames : runAnimationFrame(handle)
    \/ destroy

VanillaSpec == VanillaInit /\ [][VanillaNext]_vars

-----------------------------------------------------------------------------
(* Properties of the vanilla instance *)

\* C19: once destroy() has been called the element's boxShadow and
\* transition are empty and stay empty whatever follows (setElevation,
\* setLightSource, update, mousemove events, animation frames, those
\* requested before destroy included), and handleMouseMove is no longer a
\* mousemove listener of the window.
C19_DestroyedStaysCleared ==
    isDestroyed
    => /\ style.boxShadow = << >>
       /\ style.transition = << >>
       /\ ~listening
       /\ frames = {}

\* a mouse instance that requested a frame and was destroyed, and then had
\* its elevation set
C19_Witness ==
    /\ isDestroyed /\ call = "setElevation"
    /\ TypeOf(instanceLightSource) = "mouse" /\ animationFrame # Null
    /\ currentOptions.elevation = Num(ElevDen \div 2)
    /\ style.boxShadow = << >>

\* the light source the instance was last given is a mouse light
MouseLightNow == TypeOf(normalizeLightSource(currentOptions.lightSource)) = "mouse"

\* C20: setLightSource(s) makes a live instance behave as one made with s:
\* once the light source is 'mouse' a mousemove is tracked and requests the
\* frame that renders the shadow again, also when the instance was made
\* with a static light; once it is a static angle a mousemove requests no
\* shadow update, also when the instance was made with 'mouse'.
C20_SetLightSourceTakesEffect ==
    [][(call' = "mousemove" /\ ~isDestroyed /\ nextFrame <= MaxFrames)
        => IF MouseLightNow
           THEN /\ lastMousePosition' \in PointerPositions
                /\ smoothedPosition' # Null
                /\ nextFrame \in frames'
           ELSE frames' = frames]_vars

-----------------------------------------------------------------------------
(* C21 *)

CssVariableNames ==
    {"--lifted-elevation", "--lifted-light-angle", "--lifted-layers", "--lifted-shadow"}

DegText == <<"d", "e", "g">>

\* C21: for every input generateShadow returns a result for, the
\* derived-property map is consistent with the rest of the result:
\* '--lifted-layers' is the decimal length of result.layers,
\* '--lifted-shadow' is identical to result.boxShadow,
\* '--lifted-light-angle' is the resolved light angle followed by 'deg', and
\* '--lifted-elevation' is the elevation generateShadow was given (its
\* default 0.3 when the option is left out), not clamped.
C21_CssVariablesConsistent ==
    (Returned("generateShadow") /\ "cssVariables" \in DOMAIN ret)
    => LET variables == ret.cssVariables
           angleText == variables["--lifted-light-angle"]
           resolved == calculateLightAngle(normalizeLightSource(args.options.lightSource),
                                           args.elementBounds, args.mousePosition)
       IN  /\ DOMAIN variables = CssVariableNames
           /\ variables["--lifted-layers"] = NatToText(Len(ret.layers))
           /\ DigitsValue(variables["--lifted-layers"]) = Len(ret.layers)
           /\ variables["--lifted-shadow"] = ret.boxShadow
           /\ EndsWith(angleText, DegText)
           /\ TokenHundredths(SubSeq(angleText, 1, Len(angleText) - Len(DegText)))
                 = 100 * resolved
           /\ ElevDen * TokenHundredths(variables["--lifted-elevation"])
                 = 100 * Default(args.options.elevation, (3 * ElevDen) \div 10)

\* the default light angle (-45), elevation 0.65, several layers
C21_Witness ==
    /\ Returned("generateShadow") /\ "cssVariables" \in DOMAIN ret
    /\ Len(ret.layers) > 1
    /\ args.options.elevation = Num(13)
    /\ ret.cssVariables["--lifted-light-angle"] = <<"-", "4", "5">> \o DegText
    /\ ret.cssVariables["--lifted-elevation"] = <<"0", ".", "6", "5">>

-----------------------------------------------------------------------------
(* The useElevation hook: useElevation.ts (src/react/hooks/useDarkMode.ts
   lines 64-95), mounted in a component *)

\* React.useMemo: the cached value is returned while the dependencies are
\* those it was computed for
useMemo(cache, deps, value) ==
    IF cache # Null /\ cache.deps = deps THEN cache ELSE [deps |-> deps, value |-> value]

\* base, hover, active: an option the caller omits is Undefined
UseElevationOptions(base, hover, active) == [base |-> base, hover |-> hover, active |-> active]

\* useElevation with isActive left out of the dependencies of useMemo
useElevationStaleMemo(options, hovered, active, cache) ==
    LET base == Default(options.base, (3 * ElevDen) \div 10)
        hover == Default(options.hover, (5 * ElevDen) \div 10)
        activeElevation == Default(options.active, (15 * ElevDen) \div 100)
        elevation == useMemo(cache, <<hovered, base, hover, activeElevation>>,
                             IF active THEN activeElevation
                             ELSE IF hovered THEN hover ELSE base)
    IN  [elevation |-> elevation.value, isHovered |-> hovered, isActive |-> active,
         memo |-> elevation]

\* one render of useElevation(options) with the state (hovered, active) and
\* the cache of its useMemo: what it returns, and the cache after it
useElevation(options, hovered, active, cache) ==
    LET base == Default(options.base, (3 * ElevDen) \div 10)
        hover == Default(options.hover, (5 * ElevDen) \div 10)
        activeElevation == Default(options.active, (15 * ElevDen) \div 100)
        elevation == useMemo(cache, <<hovered, active, base, hover, activeElevation>>,
                             IF active THEN activeElevation
                             ELSE IF hovered THEN hover ELSE base)
    IN  [elevation |-> elevation.value, isHovered |-> hovered, isActive |-> active,
         memo |-> elevation]

\* the options the component passes: each one omitted or given, active
\* also equal to base
ElevationOptions ==
    {UseElevationOptions(b, h, a) :
        b \in {Undefined, Num(4)}, h \in {Undefined, Num(12)},
        a \in {Undefined, Num(2), Num(4)}}

\* React renders the component with the state the setters left: the state
\* updates of one event handler are applied together
RenderElevation(options, hovered, active) ==
    LET result == useElevation(options, hovered, active, memo) IN
    /\ isHovered' = hovered
    /\ isActive' = active
    /\ args' = options
    /\ memo' = result.memo
    /\ ret' = [elevation |-> result.elevation, isHovered |-> result.isHovered,
               isActive |-> result.isActive]
    /\ UNCHANGED <<pc, instanceVars, matches, systemDarkMode, handlers>>

\* the first render of the component
ElevationInit ==
    \E options \in ElevationOptions :
        LET result == useElevation(options, FALSE, FALSE, Null) IN
        /\ isHovered = FALSE /\ isActive = FALSE /\ pressedOutside = FALSE
        /\ memo = result.memo
        /\ matches = FALSE /\ systemDarkMode = Null /\ handlers = {}
        /\ pc = "done" /\ call = "useElevation" /\ args = options
        /\ ret = [elevation |-> result.elevation, isHovered |-> FALSE, isActive |-> FALSE]
        /\ NoInstance

\* the component renders again with the options its parent gives it
renderUseElevation(options) ==
    /\ call' = "useElevation"
    /\ UNCHANGED pressedOutside
    /\ RenderElevation(options, isHovered, isActive)

onMouseEnter ==
    /\ call' = "onMouseEnter"
    /\ UNCHANGED pressedOutside
    /\ RenderElevation(args, TRUE, isActive)

onMouseLeave ==
    /\ call' = "onMouseLeave"
    /\ UNCHANGED pressedOutside
    /\ RenderElevation(args, FALSE, FALSE)

onMouseDown ==
    /\ call' = "onMouseDown"
    /\ pressedOutside' = (pressedOutside \/ ~isHovered)
    /\ RenderElevation(args, isHovered, TRUE)

onMouseUp ==
    /\ call' = "onMouseUp"
    /\ UNCHANGED pressedOutside
    /\ RenderElevation(args, isHovered, FALSE)

ElevationNext ==
    \/ \E options \in ElevationOptions : renderUseElevation(options)
    \/ onMouseEnter
    \/ onMouseLeave
    \/ onMouseDown
    \/ onMouseUp

ElevationSpec == ElevationInit /\ [][ElevationNext]_vars

-----------------------------------------------------------------------------
(* C22 *)

BaseOf(options) == Default(options.base, (3 * ElevDen) \div 10)

HoverOf(options) == Default(options.hover, (5 * ElevDen) \div 10)

ActiveOf(options) == Default(options.active, (15 * ElevDen) \div 100)

\* the returned value is the state's: the flags, and the elevation active
\* if isActive, else hover if isHovered, else base
ElevationOfFlags ==
    /\ ret.isHovered = isHovered /\ ret.isActive = isActive
    /\ ret.elevation = IF isActive THEN ActiveOf(args)
                       ELSE IF isHovered THEN HoverOf(args) ELSE BaseOf(args)

\* C22: useElevation is a two-flag state machine over mouseEnter,
\* mouseLeave, mouseDown, mouseUp.  In every reachable state the returned
\* elevation is active if isActive, else hover if isHovered, else base (the
\* defaults 0.3, 0.5, 0.15 for options left out); right after any
\* mouseLeave both flags are clear and the elevation is base; mouseUp
\* clears isActive and leaves isHovered as it was; and as long as every
\* mouseDown came while isHovered was true, isActive implies isHovered.
C22_ElevationStateMachine ==
    [][/\ ElevationOfFlags /\ ElevationOfFlags'
       /\ call' = "onMouseLeave"
             => (~isHovered' /\ ~isActive' /\ ret'.elevation = BaseOf(args'))
       /\ call' = "onMouseUp" => (~isActive' /\ isHovered' = isHovered)
       /\ ~pressedOutside' => (isActive' => isHovered')]_vars

\* pressed while hovered with all three elevations given and distinct, no
\* mouseDown outside so far
C22_Witness ==
    /\ call = "onMouseDown" /\ ~pressedOutside
    /\ isActive /\ isHovered
    /\ args = UseElevationOptions(Num(4), Num(12), Num(2))
    /\ ret.elevation = 2

-----------------------------------------------------------------------------
(* LiftedProvider (src/react/LiftedProvider.tsx) with one LiftedBox
   (src/react/LiftedBox.tsx) under it, each with its own useDarkMode
   (src/react/hooks/useDarkMode.ts lines 13-33) *)

Components == {"LiftedProvider", "LiftedBox"}

\* the props of LiftedProvider that decide the dark mode: each one omitted
\* or given
ProviderProps ==
    [colorScheme : {Undefined, Str("light"), Str("dark"), Str("auto")},
     autoDetectDarkMode : {Undefined, Bool(TRUE), Bool(FALSE)}]

\* one render of LiftedProvider: lines 209-226 and the context value of
\* lines 238-249, with system the state of its useDarkMode
LiftedProvider(props, system, cache) ==
    LET autoDetectDarkMode == Default(props.autoDetectDarkMode, TRUE)
        colorScheme == Default(props.colorScheme, "auto")
        dark == useMemo(cache, <<colorScheme, autoDetectDarkMode, system>>,
                        IF colorScheme = "light" THEN FALSE
                        ELSE IF colorScheme = "dark" THEN TRUE
                        ELSE IF autoDetectDarkMode THEN system
                        ELSE FALSE)
    IN  [contextValue |-> [autoDetectDarkMode |-> autoDetectDarkMode,
                           colorScheme |-> colorScheme,
                           isDarkMode |-> dark.value],
         memo |-> dark]

\* one render of LiftedBox with its props left out: the options it gives
\* generateShadow (lines 86-110), with system the state of its useDarkMode
LiftedBox(system, cache) ==
    LET shadowResult ==
            useMemo(cache, <<system>>,
                    ShadowOptions(Num((3 * ElevDen) \div 10), Num(DEFAULT_LIGHT_ANGLE),
                                  Undefined, Undefined, Undefined, Num(IntensityDen),
                                  Undefined, Bool(system)))
    IN  [shadowOptions |-> shadowResult.value, memo |-> shadowResult]

\* React renders the provider and the box under it
RenderProvider(props, system) ==
    LET provider == LiftedProvider(props, system["LiftedProvider"], memo["LiftedProvider"])
        box == LiftedBox(system["LiftedBox"], memo["LiftedBox"])
    IN  /\ args' = props
        /\ systemDarkMode' = system
        /\ memo' = [c \in Components |->
                       IF c = "LiftedProvider" THEN provider.memo ELSE box.memo]
        /\ ret' = [contextValue |-> provider.contextValue,
                   shadowOptions |-> box.shadowOptions]
        /\ UNCHANGED <<pc, instanceVars, isHovered, isActive, pressedOutside>>

\* the first render: useState(defaultValue) is false in both components and
\* no effect has run
ProviderInit ==
    \E props \in ProviderProps, m \in BOOLEAN :
        LET provider == LiftedProvider(props, FALSE, Null)
            box == LiftedBox(FALSE, Null)
        IN  /\ args = props
            /\ matches = m
            /\ systemDarkMode = [c \in Components |-> FALSE]
            /\ handlers = {}
            /\ memo = [c \in Components |->
                          IF c = "LiftedProvider" THEN provider.memo ELSE box.memo]
            /\ ret = [contextValue |-> provider.contextValue,
                      shadowOptions |-> box.shadowOptions]
            /\ isHovered = FALSE /\ isActive = FALSE /\ pressedOutside = FALSE
            /\ pc = "done" /\ call = "render"
            /\ NoInstance

\* useDarkMode lines 18-30, after the first render: the effect of each
\* component reads the media query and listens to its changes
useEffect ==
    /\ handlers = {}
    /\ handlers' = Components
    /\ call' = "useEffect"
    /\ UNCHANGED matches
    /\ RenderProvider(args, [c \in Components |-> matches])

\* the system preference changes: the handlers registered (lines 24-26) run
change(eventMatches) ==
    /\ eventMatches # matches
    /\ matches' = eventMatches
    /\ call' = "change"
    /\ UNCHANGED handlers
    /\ RenderProvider(args, [c \in Components |->
                                IF c \in handlers THEN eventMatches ELSE systemDarkMode[c]])

\* the application renders LiftedProvider with other props
renderLiftedProvider(props) ==
    /\ call' = "render"
    /\ UNCHANGED <<matches, handlers>>
    /\ RenderProvider(props, systemDarkMode)

ProviderNext ==
    \/ useEffect
    \/ \E eventMatches \in BOOLEAN : change(eventMatches)
    \/ \E props \in ProviderProps : renderLiftedProvider(props)

ProviderSpec == ProviderInit /\ [][ProviderNext]_vars

-----------------------------------------------------------------------------
(* C23 *)

\* C23: once the components are mounted, the dark-mode flag LiftedBox gives
\* generateShadow honours the provider's manual override: false under
\* colorScheme 'light', true under 'dark', the system preference under
\* 'auto' with autoDetectDarkMode enabled: the value LiftedProvider
\* computes as isDarkMode.
C23_BoxHonoursColorScheme ==
    handlers = Components
    => LET colorScheme == Default(args.colorScheme, "auto")
           autoDetectDarkMode == Default(args.autoDetectDarkMode, TRUE)
           flag == ret.shadowOptions.isDarkMode
       IN  /\ colorScheme = "light" => flag = Bool(FALSE)
           /\ colorScheme = "dark" => flag = Bool(TRUE)
           /\ (colorScheme = "auto" /\ autoDetectDarkMode) => flag = Bool(matches)
           /\ flag = Bool(ret.contextValue.isDarkMode)

-----------------------------------------------------------------------------
(* C24 *)

\* the box-shadow the instance's options give with the pointer at position
ShadowWithPointerAt(position) ==
    generateShadow(ShadowOptions(Num(OrElse(currentOptions.elevation, (3 * ElevDen) \div 10)),
                                 currentOptions.lightSource, currentOptions.background,
                                 Undefined, Undefined, Num(IntensityDen), Undefined,
                                 Bool(FALSE)),
                   getBounds, position).boxShadow

\* C24: in a mouse-tracking instance, under any interleaving of mousemove
\* events and animation-frame callbacks (and of the instance's methods), at
\* most one shadow-update frame is pending at any time: each mousemove
\* leaves the frame it requests as the only one; the pending frame, when it
\* runs, renders with the latest smoothed pointer position; and the first
\* mousemove sets the smoothed position to the pointer position itself.
C24_OneFrameLatestPosition ==
    [][/\ Cardinality(frames) <= 1 /\ Cardinality(frames') <= 1
       /\ (call' = "mousemove" /\ listening)
             => /\ frames' = {nextFrame}
                /\ animationFrame' = Num(nextFrame)
                /\ smoothedPosition = Null
                      => (smoothedPosition' = lastMousePosition'
                          /\ smoothedPosition' \in PointerPositions)
       /\ call' = "requestAnimationFrame"
             => /\ frames' = {}
                /\ smoothedPosition' = smoothedPosition
                /\ currentOptions' = currentOptions
                /\ style'.boxShadow = ShadowWithPointerAt(smoothedPosition)]_vars

\* two mousemoves to different sides, then the frame of the second one runs:
\* the smoothed position is between the two and the light is still the
\* pointer
C24_Witness ==
    /\ call = "requestAnimationFrame" /\ MouseLightNow /\ listening
    /\ animationFrame = Num(2) /\ frames = {}
    /\ smoothedPosition # Null /\ smoothedPosition \notin PointerPositions
    /\ style.boxShadow = ShadowWithPointerAt(smoothedPosition)
    /\ style.boxShadow # ShadowWithPointerAt(lastMousePosition)

====
